---- MODULE Spec2Model ----
(***************************************************************************)
(* Wallet-provider integration of the token-creator demo:                  *)
(*   - the function API of src/phantomWallet.js, in its two versions: the  *)
(*     repository's file and the one the setup script scaffolds;           *)
(*   - the class PhantomWalletAdapter of src/walletIntegration.ts;         *)
(*   - the connect button component (WalletConnectButton, and the same     *)
(*     handlers in MinimalPhantomExample);                                 *)
(*   - the injected provider, an external collaborator, as its interface   *)
(*     (connect, disconnect, request, on, removeListener, isConnected,     *)
(*     publicKey) behaves.                                                 *)
(* An asynchronous function is two steps: the call up to its await of the  *)
(* provider, and the provider's settling together with the continuation    *)
(* that runs in the same turn of the event loop. Mounting the component is *)
(* two steps as well: its mount effect, and the listener effect that runs  *)
(* after the render the mount effect causes.                               *)
(***************************************************************************)
EXTENDS Integers, FiniteSets, Sequences, TLC

\* ---------------------------------------------------------------- bounds
MaxKeys == 2        \* accounts the wallet holds
MaxSubs == 2        \* calls of setupPhantomEventListeners in one run
MaxTeardowns == 2   \* calls of one teardown function
MaxInits == 3       \* runs of initDebugTools in one page load

Keys == 1..MaxKeys
Subs == 1..MaxSubs

\* ------------------------------------------------------------- constants
UserRejectedCode == 4001

\* ----------------------------------------------------------------- values
\* A PublicKey object, the string publicKey.toString() gives, and null.
Null == [t |-> "null", k |-> 0]
PublicKey(k) == [t |-> "PublicKey", k |-> k]
KeyString(k) == [t |-> "string", k |-> k]
toString(v) == IF v.t = "PublicKey" THEN KeyString(v.k) ELSE v

True == [t |-> "boolean", k |-> 1]
Undefined == [t |-> "undefined", k |-> 0]

NullMsg == "<null>"
NoErr == [message |-> NullMsg, code |-> 0]
Error(msg) == [message |-> msg, code |-> 0]
\* The error the provider rejects with when the user declines.
UserRejected == [message |-> "User rejected the request.", code |-> UserRejectedCode]
\* A failure of the provider unrelated to the user's choice.
ProviderFailure == [message |-> "Unexpected error", code |-> 0]
ProviderErrors == {UserRejected, ProviderFailure}

Events == {"connect", "disconnect", "accountChanged"}
Callers == {"api", "adapter", "ui", "form", "test", "twi"}

VARIABLES
  win,        \* what the browsing context holds: "none", "empty" (window.phantom
              \* without solana), "phantom" (window.phantom.solana, isPhantom set),
              \* "inert" (window.phantom.solana without the flag), "legacy"
              \* (window.solana.isPhantom, no window.phantom)
  impl,       \* which src/phantomWallet.js is installed: "repo" or "scaffold"
  loaded,     \* the window's load event has fired
  prov,       \* the provider object: [isConnected, publicKey]
  listeners,  \* the provider's registered listeners: pairs <<event, listener>>
  pend,       \* per caller, the provider call it awaits: "none", "connect", ...
  adapter,    \* the PhantomWalletAdapter singleton
  ui,         \* the connect button component's state
  sub,        \* per setupPhantomEventListeners call: its state, owner, callbacks
  invoked,    \* the callbacks invoked in the last step
  provCalls,  \* the provider methods called in the last step
  last,       \* the call that finished in the last step, with its outcome
  everConnected, \* some connect() has resolved successfully
  form,       \* the TokenCreationForm component's state
  test,       \* runTests of phantomWalletTest.js: where it stands, what it logged
  dbg,        \* debugUtils' module state, its keydown listeners, the console
  twi         \* the TestWalletIntegration component's state and its running handler

vars == <<win, impl, loaded, prov, listeners, pend, adapter, ui, sub,
          invoked, provCalls, last, everConnected, form, test, dbg, twi>>

NoCall == [who |-> "none", op |-> "none", outcome |-> "none", ret |-> Null, err |-> NoErr]
Returned(who, op, v) == [who |-> who, op |-> op, outcome |-> "ok", ret |-> v, err |-> NoErr]
\* a catch block that throws new Error(error.message) in place of the error
ThrewWrapped(who, op, e) ==
  [who |-> who, op |-> op, outcome |-> "threw", ret |-> Null, err |-> Error(e.message)]
Threw(who, op, e) == [who |-> who, op |-> op, outcome |-> "threw", ret |-> Null, err |-> e]

\* ------------------------------------------------------- provider locator
\* window.phantom?.solana is an object
HasPhantomSolana == win \in {"phantom", "inert"}

\* A locator that settles for 'phantom' in window and returns window.phantom
getPhantomProviderInWindow == win \in {"empty", "phantom", "inert"}

\* getPhantomProvider of the repository's phantomWallet.js: no flag check
getPhantomProviderRepo == HasPhantomSolana

\* getPhantomProvider as scaffolded: 'phantom' in window and provider?.isPhantom
getPhantomProviderScaffold == win = "phantom"

\* TRUE when the locator returns the provider object, FALSE when it returns null
getPhantomProvider == IF impl = "repo" THEN getPhantomProviderRepo ELSE getPhantomProviderScaffold

\* isPhantomInstalled: window?.phantom?.solana?.isPhantom || false in the
\* repository's file, !!getPhantomProvider() as scaffolded
isPhantomInstalled == IF impl = "repo" THEN win = "phantom" ELSE getPhantomProviderScaffold

\* PhantomWalletAdapter._getProvider: window.phantom?.solana when 'phantom' is in
\* window, else the legacy window.solana when it carries isPhantom
_getProvider ==
  IF win \in {"empty", "phantom", "inert"} THEN HasPhantomSolana ELSE win = "legacy"

\* walletDebugger.getWalletProvider: the same lookup as _getProvider
getWalletProvider ==
  IF win \in {"empty", "phantom", "inert"} THEN HasPhantomSolana ELSE win = "legacy"

\* isPhantomConnected: provider?.isConnected || false
\* a connection flag that is set on connect and never cleared
isPhantomConnectedSticky == getPhantomProvider /\ everConnected
isPhantomConnected == getPhantomProvider /\ prov.isConnected

\* getConnectedPublicKey: provider?.publicKey?.toString() || null in the
\* repository's file; as scaffolded only when provider.isConnected as well
getConnectedPublicKey ==
  IF impl = "repo"
  THEN IF getPhantomProvider THEN toString(prov.publicKey) ELSE Null
  ELSE IF getPhantomProvider /\ prov.isConnected /\ prov.publicKey # Null
       THEN toString(prov.publicKey) ELSE Null

\* ---------------------------------------------------- the injected provider
Disconnected == [isConnected |-> FALSE, publicKey |-> Null]
ConnectedAs(k) == [isConnected |-> TRUE, publicKey |-> PublicKey(k)]

\* The account connect() resolves with: the session's when there is one.
ApprovedKeys == IF prov.isConnected THEN {prov.publicKey.k} ELSE Keys

\* The events the provider emits when its state goes from p to q.
ConnectEmits(p) == IF p.isConnected THEN {} ELSE {"connect"}
DisconnectEmits(p) == IF p.isConnected THEN {"disconnect"} ELSE {}

\* The callbacks a client handed to the event relay, and the adapter's
\* onDisconnect callback; the adapter's own listeners are listener 0.
AdapterListener == 0
OnDisconnectCb == <<"onDisconnect", AdapterListener>>
CbIds == (Events \X Subs) \cup {OnDisconnectCb}
NoneInvoked == [c \in CbIds |-> 0]

\* provider.on(event, listener)
on(ls, ev, l) == ls \cup {<<ev, l>>}

\* provider.removeListener(event, listener): removes that listener only
removeListener(ls, ev, l) == ls \ {<<ev, l>>}

\* ------------------------------------------------- PhantomWalletAdapter
\* a _handleDisconnect that resets the flag and keeps the account
_handleDisconnectKeepsKey(a) == [a EXCEPT !.connected = FALSE]

\* _handleDisconnect: clears the account and the flag (and calls the
\* onDisconnect callback, counted by HandleDisconnectRuns)
_handleDisconnect(a) == [a EXCEPT !.publicKey = Null, !.connected = FALSE]

\* an accountChanged listener that ignores an event without a key
onAccountChangedIgnoresNull(a, key) == IF key # Null THEN [a EXCEPT !.publicKey = key] ELSE a

\* the accountChanged listener _registerEvents attaches
onAccountChangedAdapter(a, key) ==
  IF key # Null THEN [a EXCEPT !.publicKey = key] ELSE _handleDisconnect(a)

\* _checkConnection: copies the provider's state when it is connected
_checkConnection(a) ==
  IF _getProvider /\ prov.isConnected
  THEN [a EXCEPT !.publicKey = prov.publicKey, !.connected = TRUE]
  ELSE a

\* The adapter after the provider emitted the events evs (with argument arg).
AdapterOn(a, evs, arg) ==
  IF "accountChanged" \in evs /\ <<"accountChanged", AdapterListener>> \in listeners
  THEN onAccountChangedAdapter(a, arg)
  ELSE IF "disconnect" \in evs /\ <<"disconnect", AdapterListener>> \in listeners
  THEN _handleDisconnect(a)
  ELSE a

\* How many times the adapter's listeners run _handleDisconnect on evs.
HandleDisconnectRuns(evs, arg) ==
  IF "accountChanged" \in evs /\ <<"accountChanged", AdapterListener>> \in listeners /\ arg = Null
  THEN 1
  ELSE IF "disconnect" \in evs /\ <<"disconnect", AdapterListener>> \in listeners
  THEN 1 ELSE 0

\* ------------------------------------------- the connect button component
\* the callbacks the component hands to setupPhantomEventListeners
onConnectUi(u, key) == [u EXCEPT !.walletConnected = TRUE, !.publicKey = toString(key)]
onDisconnectUiKeepsKey(u) == [u EXCEPT !.walletConnected = FALSE]
onDisconnectUi(u) == [u EXCEPT !.walletConnected = FALSE, !.publicKey = Null]
onAccountChangeUi(u, key) == IF key # Null THEN [u EXCEPT !.publicKey = toString(key)] ELSE u

\* The component after the provider emitted evs: its callbacks run only
\* while they are registered with the provider.
UiOn(u, evs, arg) ==
  IF u.sub \notin Subs THEN u
  ELSE IF "connect" \in evs /\ <<"connect", u.sub>> \in listeners THEN onConnectUi(u, arg)
  ELSE IF "disconnect" \in evs /\ <<"disconnect", u.sub>> \in listeners THEN onDisconnectUi(u)
  ELSE IF "accountChanged" \in evs /\ <<"accountChanged", u.sub>> \in listeners
  THEN onAccountChangeUi(u, arg)
  ELSE u

\* The callbacks invoked when the provider emits evs and the adapter then runs
\* _handleDisconnect `direct` more times (a holds the adapter's onDisconnect).
CallbacksOn(evs, arg, a, direct) ==
  [c \in CbIds |->
     IF c = OnDisconnectCb
     THEN IF a.onDisconnect THEN HandleDisconnectRuns(evs, arg) + direct ELSE 0
     ELSE IF c[1] \in evs /\ c \in listeners THEN 1 ELSE 0]

\* ------------------------------------------------- TokenCreationForm
\* useState: the form's fields that handleSubmit reads or writes. stage is
\* the await handleSubmit stands at ("idle" when it is not running).
FormInit ==
  [stage |-> "idle", tokenName |-> "", tokenSymbol |-> "", tokenSupply |-> 1000000,
   isCreating |-> FALSE, error |-> NullMsg, success |-> NullMsg,
   createdTokenAddress |-> Null, walletConnected |-> FALSE, walletAddress |-> Null]

\* what the user can type into the name, symbol and supply fields
TokenNames == {"", "MyToken"}
TokenSymbols == {"", "MTK"}
TokenSupplies == {0, 1000000}

\* 'TokenAddress' + Math.random().toString(36)...: the address made up
MockTokenAddress == [t |-> "mockTokenAddress", k |-> 0]

RequiredMessage == "Token name and symbol are required"

\* a validation that forgets the symbol
formInvalidNameOnly(f) == f.tokenName = ""

\* handleSubmit's validation: !tokenName || !tokenSymbol
formInvalid(f) == f.tokenName = "" \/ f.tokenSymbol = ""

\* a reset that forgets the success message and the created address
formResetErrorOnly(f) == [f EXCEPT !.error = NullMsg]

\* handleSubmit's resets before validating
formReset(f) == [f EXCEPT !.error = NullMsg, !.success = NullMsg, !.createdTokenAddress = Null]

\* ------------------------------------------------------------ runTests
\* pc is the await runTests stands at; t5, t8 and t10 are what Tests 5, 8
\* and 10 logged ("ok" for the success line, "error" for the ERROR line)
TestInit ==
  [pc |-> "idle", sub |-> 0, t5 |-> "none", t8 |-> "none", t10 |-> "none",
   connectedAfterAttempt |-> FALSE, connectedAfterDisconnect |-> FALSE]

\* ---------------------------------------------------------- debugUtils
\* DEBUG_ENABLED and LOG_LEVEL as the module sets them; console is
\* window.debugConsole: "absent" before it is created, else its
\* style.display; inits counts the keydown listener pairs initDebugTools has
\* added to window (none is ever removed); shell is MyApp's own keydown
\* listener being registered; dom is DOMContentLoaded having fired;
\* appended counts the console elements appended to document.body; t1 is
\* where Test 1 of the test page's runAllTests stands and t1shown whether
\* the console was shown when it started
DebugInit ==
  [enabled |-> TRUE, logLevel |-> "info", console |-> "absent", inits |-> 0,
   shell |-> FALSE, dom |-> FALSE, appended |-> 0, t1 |-> "idle", t1shown |-> FALSE,
   log |-> [level |-> "none", wrote |-> FALSE, enabled |-> FALSE, logLevel |-> "none"]]

LogLevels == {"error", "warn", "info", "debug", "trace"}
Keys3 == {"D", "L", "x"}

showDebugConsole(c) == "flex"
hideDebugConsole(c) == IF c # "absent" THEN "none" ELSE c
toggleDebugConsole(c) ==
  IF c # "absent" /\ c # "none" THEN hideDebugConsole(c) ELSE showDebugConsole(c)

\* the members the object literal LOG_LEVELS inherits from Object.prototype
\* (one of them), and a name that is no member at all
ProtoKeys == {"constructor"}
LevelArgs == LogLevels \cup ProtoKeys \cup {"verbose"}

Number(n) == [t |-> "number", k |-> n]

\* LOG_LEVELS[level]: the rank of one of the five levels, the inherited
\* member for a name found on Object.prototype, undefined otherwise
LOG_LEVELS(level) ==
  CASE level = "error" -> Number(0)
    [] level = "warn" -> Number(1)
    [] level = "info" -> Number(2)
    [] level = "debug" -> Number(3)
    [] level = "trace" -> Number(4)
    [] level \in ProtoKeys -> [t |-> "function", k |-> 0]
    [] OTHER -> Undefined

\* a > b of JavaScript: false when an operand converts to NaN
GreaterThan(a, b) == a.t = "number" /\ b.t = "number" /\ a.k > b.k

\* log(level, message): whether it wrote an entry, and DEBUG_ENABLED and
\* LOG_LEVEL as it read them
log(d, level) ==
  [d EXCEPT !.log = [level |-> level,
                     wrote |-> ~(~d.enabled \/ GreaterThan(LOG_LEVELS(level), LOG_LEVELS(d.logLevel))),
                     enabled |-> d.enabled, logLevel |-> d.logLevel]]

\* initDebugTools(options); options.enabled is "true", "false" or
\* "undefined", options.logLevel a string or "undefined"
initDebugTools(d, enabled, logLevel) ==
  log([d EXCEPT !.enabled = IF enabled \in {"true", "false"} THEN enabled = "true" ELSE @,
                !.logLevel = IF logLevel # "undefined" /\ LOG_LEVELS(logLevel) # Undefined
                             THEN logLevel ELSE @,
                !.inits = @ + 1],
      "info")

\* executeDebugCommand(command) for the commands log, loglevel and debug
\* with one argument (log: and a message); the argument is lowercased
DebugCommands == {"log", "loglevel", "debug"}
DebugArgs == LevelArgs \cup {"on", "off", "true", "false"}
executeDebugCommand(d, cmd, arg) ==
  CASE cmd = "log" -> IF LOG_LEVELS(arg) # Undefined THEN log(d, arg) ELSE d
    [] cmd = "loglevel" -> IF LOG_LEVELS(arg) # Undefined THEN [d EXCEPT !.logLevel = arg] ELSE d
    [] cmd = "debug" -> IF arg \in {"on", "true"} THEN [d EXCEPT !.enabled = TRUE]
                        ELSE IF arg \in {"off", "false"} THEN [d EXCEPT !.enabled = FALSE]
                        ELSE d
    [] OTHER -> d

\* a showDebugConsole that builds a new element on every call
showAppendsAlways(c) == 1

\* showDebugConsole: the elements it appends to document.body
showAppends(c) == IF c = "absent" THEN 1 ELSE 0

\* toggleDebugConsole: the elements it appends
toggleAppends(c) == IF c # "absent" /\ c # "none" THEN 0 ELSE showAppends(c)

\* the console is on screen
Shown(c) == c # "absent" /\ c # "none"

\* the keydown listeners on window
keydownListeners(d) == d.inits + (IF d.shell THEN 1 ELSE 0)

\* window's keydown listeners run one after the other on one event
RECURSIVE dispatchKeyD(_, _)
dispatchKeyD(c, n) == IF n = 0 THEN c ELSE dispatchKeyD(toggleDebugConsole(c), n - 1)

RECURSIVE dispatchKeyL(_, _)
dispatchKeyL(enabled, n) == IF n = 0 THEN enabled ELSE dispatchKeyL(~enabled, n - 1)

\* the Ctrl+Shift+L listeners: each flips DEBUG_ENABLED and logs at info
RECURSIVE dispatchKeyLLogs(_, _)
dispatchKeyLLogs(d, n) ==
  IF n = 0 THEN d
  ELSE dispatchKeyLLogs(log([d EXCEPT !.enabled = dispatchKeyL(@, 1)], "info"), n - 1)

\* the elements the Ctrl+Shift+D listeners append on one event
RECURSIVE dispatchKeyDAppends(_, _)
dispatchKeyDAppends(c, n) ==
  IF n = 0 THEN 0 ELSE toggleAppends(c) + dispatchKeyDAppends(toggleDebugConsole(c), n - 1)

\* ------------------------------------------------ TestWalletIntegration
TwiTests ==
  {"phantomInstallation", "walletConnection", "popupFunctionality", "addToken",
   "walletDisconnection"}

\* The component's useState values; pc is the await its running handler
\* stands at, mode whether that handler was started by its own button
\* ("single") or by runAllTests ("all"), c the walletConnected the running
\* handlers' closures hold, steps the handlers the run has entered, and
\* finished the mode of the run that ended last
TwiInit ==
  [mounted |-> FALSE, isPhantomInstalled |-> FALSE, walletConnected |-> FALSE,
   walletPublicKey |-> Null, isLoading |-> FALSE,
   testResults |-> [n \in TwiTests |-> "none"],
   pc |-> "idle", mode |-> "none", c |-> FALSE, steps |-> <<>>, finished |-> "none"]

\* walletDebugger.checkPhantomInstallation: 'phantom' in window, or
\* window.solana.isPhantom
checkPhantomInstallation == win # "none"

\* setTestResults(prev => ({ ...prev, [name]: r }))
twiRecord(t, name, r) == [t EXCEPT !.testResults[name] = r]

\* a handler's finally: setIsLoading(false)
twiSettled(t) == [t EXCEPT !.isLoading = FALSE]

\* a handler that leaves isLoading as it is when it starts
twiWaitLeavesLoading(t, pc) == [t EXCEPT !.pc = pc]

\* a handler's setIsLoading(true) and the await it then stands at
twiWait(t, pc) == [t EXCEPT !.pc = pc, !.isLoading = TRUE]

\* what follows a handler: the next test of runAllTests, or nothing
twiAfter(stage, mode) ==
  IF mode # "all" THEN "end"
  ELSE IF stage = "connect" THEN "popup"
  ELSE IF stage = "popup" THEN "addToken"
  ELSE IF stage = "addToken" THEN "disconnect"
  ELSE "end"

\* The component once the handler `stage` was entered and everything up to
\* the next await of a provider call has run (a being the adapter then):
\* connectWallet, testPopupFunctionality (and its connect part),
\* testAddToken, disconnectWallet, and the end of the run.
RECURSIVE twiStart(_, _, _)
twiStart(t, a, stage) ==
  LET t1 == [t EXCEPT !.steps = Append(@, stage)]
  IN CASE stage = "connect" ->
            IF _getProvider THEN twiWait(t1, "connect")
            ELSE twiStart(twiSettled(twiRecord(t1, "walletConnection", "FAIL")), a,
                          twiAfter("connect", t.mode))
       [] stage = "popup" ->
            IF t.c
            THEN IF _getProvider THEN twiWait(t1, "popupDisconnect")
                 ELSE twiStart([t1 EXCEPT !.walletConnected = FALSE, !.walletPublicKey = Null],
                               a, "popupConnect")
            ELSE twiStart(t1, a, "popupConnect")
       [] stage = "popupConnect" ->
            IF _getProvider THEN twiWait(t, "popupConnect")
            ELSE twiStart(twiSettled(twiRecord(t, "popupFunctionality", "FAIL")), a,
                          twiAfter("popup", t.mode))
       [] stage = "addToken" ->
            IF ~t.c THEN twiStart(twiSettled(t1), a, twiAfter("addToken", t.mode))
            ELSE IF _getProvider /\ a.connected THEN twiWait(t1, "addToken")
            ELSE twiStart(twiSettled(twiRecord(t1, "addToken", "FAIL")), a,
                          twiAfter("addToken", t.mode))
       [] stage = "disconnect" ->
            IF _getProvider THEN twiWait(t1, "disconnect")
            ELSE twiStart(twiSettled(twiRecord([t1 EXCEPT !.walletConnected = FALSE,
                                                          !.walletPublicKey = Null],
                                               "walletDisconnection", "PASS")), a,
                          twiAfter("disconnect", t.mode))
       [] OTHER ->
            [t EXCEPT !.pc = "idle", !.isLoading = FALSE, !.finished = t.mode,
                      !.mode = "none"]

\* the provider call a handler standing at pc awaits
twiPending(pc) ==
  IF pc \in {"connect", "popupConnect"} THEN "connect"
  ELSE IF pc \in {"popupDisconnect", "disconnect"} THEN "disconnect"
  ELSE IF pc = "addToken" THEN "request"
  ELSE "none"

\* getPhantomWallet(): the singleton, constructed on the first call
getPhantomWallet(a) == [a EXCEPT !.constructed = TRUE]
getPhantomWalletListeners ==
  IF ~adapter.constructed /\ _getProvider
  THEN on(on(listeners, "accountChanged", AdapterListener), "disconnect", AdapterListener)
  ELSE listeners

\* ------------------------------------------------------------------ Init
WinKinds == {"none", "empty", "phantom", "inert", "legacy"}

Init ==
  /\ win \in WinKinds
  /\ impl \in {"repo", "scaffold"}
  /\ loaded = FALSE
  /\ prov = Disconnected
  /\ listeners = {}
  /\ pend = [c \in Callers |-> "none"]
  /\ adapter = [constructed |-> FALSE, publicKey |-> Null, connected |-> FALSE,
                onDisconnect |-> FALSE]
  /\ ui = [mounted |-> FALSE, walletInstalled |-> FALSE, walletConnected |-> FALSE,
           publicKey |-> Null, isLoading |-> FALSE, error |-> NullMsg, sub |-> 0]
  /\ sub = [s \in Subs |-> [state |-> "unused", owner |-> "none", cbs |-> {},
                            bound |-> FALSE, teardowns |-> 0]]
  /\ invoked = NoneInvoked
  /\ provCalls = {}
  /\ last = NoCall
  /\ everConnected = FALSE
  /\ form = FormInit
  /\ test = TestInit
  /\ dbg = DebugInit
  /\ twi = TwiInit

\* -------------------------------------------- the function API's outcomes
\* connectPhantomWallet throws before any provider call when the locator
\* returns null
NotInstalledConnect ==
  IF impl = "repo"
  THEN Error("Phantom wallet not installed. Please install it from phantom.app")
  ELSE Error("Phantom wallet not installed")

\* disconnectPhantomWallet without a provider: returns in the repository's
\* file, throws as scaffolded
DisconnectNoProvider(who) ==
  IF impl = "repo" THEN Returned(who, "disconnect", Undefined)
  ELSE Threw(who, "disconnect", Error("Phantom wallet not installed"))

\* addTokenToPhantomWallet: the checks before provider.request. NoErr when
\* the call goes on to the request.
AddTokenCheck ==
  IF ~getPhantomProvider THEN Error("Phantom wallet not installed")
  ELSE IF impl = "scaffold" /\ ~prov.isConnected THEN Error("Phantom wallet not connected")
  ELSE NoErr

\* what addTokenToPhantomWallet returns once the request resolved
AddTokenResult == IF impl = "repo" THEN Undefined ELSE True

\* The first setup slot not yet used.
FreshSub(s) == sub[s].state = "unused" /\ \A r \in Subs : r < s => sub[r].state # "unused"

\* A setup that subscribes to all three events whatever callbacks it got
setupListenersAllEvents(s, cbs) ==
  IF getPhantomProvider THEN listeners \cup {<<e, s>> : e \in Events} ELSE listeners

\* setupPhantomEventListeners: registers the callbacks supplied, when the
\* locator finds a provider
setupListeners(s, cbs) ==
  IF getPhantomProvider THEN listeners \cup {<<e, s>> : e \in cbs} ELSE listeners

\* A teardown that leaves the accountChanged callback registered
teardownListenersKeepsAccount(s) ==
  IF sub[s].bound
  THEN removeListener(removeListener(listeners, "connect", s), "disconnect", s)
  ELSE listeners

\* A teardown that reads the callbacks from a variable every setup call
\* overwrites: it removes the callbacks of the latest setup call
teardownListenersOfLatest(s) ==
  LET r == CHOOSE x \in Subs :
             /\ sub[x].state # "unused"
             /\ \A y \in Subs : sub[y].state # "unused" => y <= x
  IN IF sub[s].bound THEN listeners \ {<<e, r>> : e \in sub[r].cbs} ELSE listeners

\* A teardown that looks the provider up when called and clears its listeners
teardownListenersRemovesAll(s) == IF getPhantomProvider THEN {} ELSE listeners

\* The function setupPhantomEventListeners returned: removes the callbacks it
\* registered from the provider it captured; () => {} when there was none.
teardownListeners(s) ==
  IF sub[s].bound
  THEN LET l1 == IF "connect" \in sub[s].cbs
                 THEN removeListener(listeners, "connect", s) ELSE listeners
           l2 == IF "disconnect" \in sub[s].cbs
                 THEN removeListener(l1, "disconnect", s) ELSE l1
       IN IF "accountChanged" \in sub[s].cbs
          THEN removeListener(l2, "accountChanged", s) ELSE l2
  ELSE listeners

\* --------------------------------- direct callers of the function API
\* (runTests, TokenCreationForm, LiquidityPoolForm)

\* connectPhantomWallet, up to its await of provider.connect()
ApiConnect ==
  /\ pend["api"] = "none"
  /\ IF getPhantomProvider
     THEN /\ pend' = [pend EXCEPT !["api"] = "connect"]
          /\ provCalls' = {"connect"}
          /\ last' = NoCall
     ELSE /\ pend' = pend
          /\ provCalls' = {}
          /\ last' = Threw("api", "connect", NotInstalledConnect)
  /\ invoked' = NoneInvoked
  /\ UNCHANGED <<twi, dbg, test, form, win, impl, loaded, prov, listeners, adapter, ui, sub, everConnected>>

\* the user approves: provider.connect() resolves, connectPhantomWallet
\* returns response.publicKey.toString()
ApiConnectResolve(k) ==
  /\ pend["api"] = "connect"
  /\ k \in ApprovedKeys
  /\ LET evs == ConnectEmits(prov)
         arg == PublicKey(k)
     IN /\ prov' = ConnectedAs(k)
        /\ adapter' = AdapterOn(adapter, evs, arg)
        /\ ui' = UiOn(ui, evs, arg)
        /\ invoked' = CallbacksOn(evs, arg, adapter, 0)
        /\ last' = Returned("api", "connect", toString(arg))
  /\ pend' = [pend EXCEPT !["api"] = "none"]
  /\ provCalls' = {}
  /\ everConnected' = TRUE
  /\ UNCHANGED <<twi, dbg, test, form, win, impl, loaded, listeners, sub>>

\* a catch block that calls provider.connect() again after a rejection
ApiConnectRejectRetries(e) ==
  /\ pend["api"] = "connect"
  /\ last' = NoCall
  /\ pend' = pend
  /\ provCalls' = {"connect"}
  /\ invoked' = NoneInvoked
  /\ UNCHANGED <<twi, dbg, test, form, win, impl, loaded, prov, listeners, adapter, ui, sub, everConnected>>

\* the provider rejects: connectPhantomWallet rethrows the error
ApiConnectReject(e) ==
  /\ pend["api"] = "connect"
  /\ last' = Threw("api", "connect", e)
  /\ pend' = [pend EXCEPT !["api"] = "none"]
  /\ provCalls' = {}
  /\ invoked' = NoneInvoked
  /\ UNCHANGED <<twi, dbg, test, form, win, impl, loaded, prov, listeners, adapter, ui, sub, everConnected>>

\* disconnectPhantomWallet, up to its await of provider.disconnect()
ApiDisconnect ==
  /\ pend["api"] = "none"
  /\ IF getPhantomProvider
     THEN /\ pend' = [pend EXCEPT !["api"] = "disconnect"]
          /\ provCalls' = {"disconnect"}
          /\ last' = NoCall
     ELSE /\ pend' = pend
          /\ provCalls' = {}
          /\ last' = DisconnectNoProvider("api")
  /\ invoked' = NoneInvoked
  /\ UNCHANGED <<twi, dbg, test, form, win, impl, loaded, prov, listeners, adapter, ui, sub, everConnected>>

ApiDisconnectResolve ==
  /\ pend["api"] = "disconnect"
  /\ LET evs == DisconnectEmits(prov)
     IN /\ prov' = Disconnected
        /\ adapter' = AdapterOn(adapter, evs, Null)
        /\ ui' = UiOn(ui, evs, Null)
        /\ invoked' = CallbacksOn(evs, Null, adapter, 0)
  /\ last' = Returned("api", "disconnect", Undefined)
  /\ pend' = [pend EXCEPT !["api"] = "none"]
  /\ provCalls' = {}
  /\ UNCHANGED <<twi, dbg, test, form, win, impl, loaded, listeners, sub, everConnected>>

\* the provider fails to tear the session down
ApiDisconnectReject(e) ==
  /\ pend["api"] = "disconnect"
  /\ prov.isConnected
  /\ last' = Threw("api", "disconnect", e)
  /\ pend' = [pend EXCEPT !["api"] = "none"]
  /\ provCalls' = {}
  /\ invoked' = NoneInvoked
  /\ UNCHANGED <<twi, dbg, test, form, win, impl, loaded, prov, listeners, adapter, ui, sub, everConnected>>

\* addTokenToPhantomWallet, up to its await of provider.request()
ApiAddToken ==
  /\ pend["api"] = "none"
  /\ IF AddTokenCheck = NoErr
     THEN /\ pend' = [pend EXCEPT !["api"] = "request"]
          /\ provCalls' = {"request"}
          /\ last' = NoCall
     ELSE /\ pend' = pend
          /\ provCalls' = {}
          /\ last' = Threw("api", "addToken", AddTokenCheck)
  /\ invoked' = NoneInvoked
  /\ UNCHANGED <<twi, dbg, test, form, win, impl, loaded, prov, listeners, adapter, ui, sub, everConnected>>

ApiAddTokenResolve ==
  /\ pend["api"] = "request"
  /\ last' = Returned("api", "addToken", AddTokenResult)
  /\ pend' = [pend EXCEPT !["api"] = "none"]
  /\ provCalls' = {}
  /\ invoked' = NoneInvoked
  /\ UNCHANGED <<twi, dbg, test, form, win, impl, loaded, prov, listeners, adapter, ui, sub, everConnected>>

ApiAddTokenReject(e) ==
  /\ pend["api"] = "request"
  /\ last' = Threw("api", "addToken", e)
  /\ pend' = [pend EXCEPT !["api"] = "none"]
  /\ provCalls' = {}
  /\ invoked' = NoneInvoked
  /\ UNCHANGED <<twi, dbg, test, form, win, impl, loaded, prov, listeners, adapter, ui, sub, everConnected>>

\* setupPhantomEventListeners(callbacks) with fresh callback functions
ApiSetup(s, cbs) ==
  /\ FreshSub(s)
  /\ listeners' = setupListeners(s, cbs)
  /\ sub' = [sub EXCEPT ![s] = [state |-> "active", owner |-> "api", cbs |-> cbs,
                                bound |-> getPhantomProvider, teardowns |-> 0]]
  /\ last' = Returned("api", "setup", Undefined)
  /\ provCalls' = {}
  /\ invoked' = NoneInvoked
  /\ UNCHANGED <<twi, dbg, test, form, win, impl, loaded, prov, pend, adapter, ui, everConnected>>

\* a call of the function setup call s returned (the first or a later one)
ApiTeardown(s) ==
  /\ sub[s].owner = "api"
  /\ sub[s].teardowns < MaxTeardowns
  /\ listeners' = teardownListeners(s)
  /\ sub' = [sub EXCEPT ![s].state = "torn", ![s].teardowns = @ + 1]
  /\ last' = Returned("api", "teardown", Undefined)
  /\ provCalls' = {}
  /\ invoked' = NoneInvoked
  /\ UNCHANGED <<twi, dbg, test, form, win, impl, loaded, prov, pend, adapter, ui, everConnected>>

\* ------------------------------------------- PhantomWalletAdapter's callers
\* getPhantomWallet(): constructs the singleton; the constructor registers
\* the load listener and, when a provider is found, the two event listeners
AdapterConstruct ==
  /\ ~adapter.constructed
  /\ adapter' = [adapter EXCEPT !.constructed = TRUE]
  /\ listeners' = IF _getProvider
                  THEN on(on(listeners, "accountChanged", AdapterListener),
                          "disconnect", AdapterListener)
                  ELSE listeners
  /\ last' = NoCall
  /\ provCalls' = {}
  /\ invoked' = NoneInvoked
  /\ UNCHANGED <<twi, dbg, test, form, win, impl, loaded, prov, pend, ui, sub, everConnected>>

\* the window's load event: the adapter's load listener, when the adapter
\* was constructed before it, runs _checkConnection
WindowLoad ==
  /\ ~loaded
  /\ loaded' = TRUE
  /\ adapter' = IF adapter.constructed THEN _checkConnection(adapter) ELSE adapter
  /\ last' = NoCall
  /\ provCalls' = {}
  /\ invoked' = NoneInvoked
  /\ UNCHANGED <<twi, dbg, test, form, win, impl, prov, listeners, pend, ui, sub, everConnected>>

\* onDisconnect(callback)
AdapterSetOnDisconnect ==
  /\ adapter.constructed
  /\ ~adapter.onDisconnect
  /\ adapter' = [adapter EXCEPT !.onDisconnect = TRUE]
  /\ last' = NoCall
  /\ provCalls' = {}
  /\ invoked' = NoneInvoked
  /\ UNCHANGED <<twi, dbg, test, form, win, impl, loaded, prov, listeners, pend, ui, sub, everConnected>>

\* connect(), up to its await of provider.connect()
AdapterConnect ==
  /\ adapter.constructed
  /\ pend["adapter"] = "none"
  /\ IF _getProvider
     THEN /\ pend' = [pend EXCEPT !["adapter"] = "connect"]
          /\ provCalls' = {"connect"}
          /\ last' = NoCall
     ELSE /\ pend' = pend
          /\ provCalls' = {}
          /\ last' = Threw("adapter", "connect",
               Error("Phantom wallet not installed. Please install Phantom wallet extension."))
  /\ invoked' = NoneInvoked
  /\ UNCHANGED <<twi, dbg, test, form, win, impl, loaded, prov, listeners, adapter, ui, sub, everConnected>>

\* a continuation that stores the key and forgets the flag
connectContinuationNoFlag(a, key) == [a EXCEPT !.publicKey = key]

\* connect() after provider.connect() resolved
connectContinuation(a, key) == [a EXCEPT !.publicKey = key, !.connected = TRUE]

AdapterConnectResolve(k) ==
  /\ pend["adapter"] = "connect"
  /\ k \in ApprovedKeys
  /\ LET evs == ConnectEmits(prov)
         arg == PublicKey(k)
     IN /\ prov' = ConnectedAs(k)
        /\ adapter' = connectContinuation(AdapterOn(adapter, evs, arg), arg)
        /\ ui' = UiOn(ui, evs, arg)
        /\ invoked' = CallbacksOn(evs, arg, adapter, 0)
        /\ last' = Returned("adapter", "connect", arg)
  /\ pend' = [pend EXCEPT !["adapter"] = "none"]
  /\ provCalls' = {}
  /\ everConnected' = TRUE
  /\ UNCHANGED <<twi, dbg, test, form, win, impl, loaded, listeners, sub>>

AdapterConnectReject(e) ==
  /\ pend["adapter"] = "connect"
  /\ last' = Threw("adapter", "connect", e)
  /\ pend' = [pend EXCEPT !["adapter"] = "none"]
  /\ provCalls' = {}
  /\ invoked' = NoneInvoked
  /\ UNCHANGED <<twi, dbg, test, form, win, impl, loaded, prov, listeners, adapter, ui, sub, everConnected>>

\* disconnect(), up to its await of provider.disconnect(); without a
\* provider it returns at once
AdapterDisconnect ==
  /\ adapter.constructed
  /\ pend["adapter"] = "none"
  /\ IF _getProvider
     THEN /\ pend' = [pend EXCEPT !["adapter"] = "disconnect"]
          /\ provCalls' = {"disconnect"}
          /\ last' = NoCall
     ELSE /\ pend' = pend
          /\ provCalls' = {}
          /\ last' = Returned("adapter", "disconnect", Undefined)
  /\ invoked' = NoneInvoked
  /\ UNCHANGED <<twi, dbg, test, form, win, impl, loaded, prov, listeners, adapter, ui, sub, everConnected>>

\* provider.disconnect() resolved: disconnect() calls _handleDisconnect()
AdapterDisconnectResolve ==
  /\ pend["adapter"] = "disconnect"
  /\ LET evs == DisconnectEmits(prov)
     IN /\ prov' = Disconnected
        /\ adapter' = _handleDisconnect(AdapterOn(adapter, evs, Null))
        /\ ui' = UiOn(ui, evs, Null)
        /\ invoked' = CallbacksOn(evs, Null, adapter, 1)
  /\ last' = Returned("adapter", "disconnect", Undefined)
  /\ pend' = [pend EXCEPT !["adapter"] = "none"]
  /\ provCalls' = {}
  /\ UNCHANGED <<twi, dbg, test, form, win, impl, loaded, listeners, sub, everConnected>>

AdapterDisconnectReject(e) ==
  /\ pend["adapter"] = "disconnect"
  /\ prov.isConnected
  /\ last' = Threw("adapter", "disconnect", e)
  /\ pend' = [pend EXCEPT !["adapter"] = "none"]
  /\ provCalls' = {}
  /\ invoked' = NoneInvoked
  /\ UNCHANGED <<twi, dbg, test, form, win, impl, loaded, prov, listeners, adapter, ui, sub, everConnected>>

\* addToken(tokenAddress): !provider || !this._connected throws
addTokenGuard == _getProvider /\ adapter.connected

AdapterAddToken ==
  /\ adapter.constructed
  /\ pend["adapter"] = "none"
  /\ IF addTokenGuard
     THEN /\ pend' = [pend EXCEPT !["adapter"] = "request"]
          /\ provCalls' = {"request"}
          /\ last' = NoCall
     ELSE /\ pend' = pend
          /\ provCalls' = {}
          /\ last' = Threw("adapter", "addToken", Error("Wallet not connected"))
  /\ invoked' = NoneInvoked
  /\ UNCHANGED <<twi, dbg, test, form, win, impl, loaded, prov, listeners, adapter, ui, sub, everConnected>>

AdapterAddTokenResolve ==
  /\ pend["adapter"] = "request"
  /\ last' = Returned("adapter", "addToken", True)
  /\ pend' = [pend EXCEPT !["adapter"] = "none"]
  /\ provCalls' = {}
  /\ invoked' = NoneInvoked
  /\ UNCHANGED <<twi, dbg, test, form, win, impl, loaded, prov, listeners, adapter, ui, sub, everConnected>>

AdapterAddTokenReject(e) ==
  /\ pend["adapter"] = "request"
  /\ last' = Threw("adapter", "addToken", e)
  /\ pend' = [pend EXCEPT !["adapter"] = "none"]
  /\ provCalls' = {}
  /\ invoked' = NoneInvoked
  /\ UNCHANGED <<twi, dbg, test, form, win, impl, loaded, prov, listeners, adapter, ui, sub, everConnected>>

\* ------------------------------------------- the connect button component
UiUnmounted ==
  [mounted |-> FALSE, walletInstalled |-> FALSE, walletConnected |-> FALSE,
   publicKey |-> Null, isLoading |-> FALSE, error |-> NullMsg, sub |-> 0]

\* the mount effect checkPhantomStatus: the state it leaves
checkPhantomStatus(u) ==
  IF isPhantomInstalled /\ isPhantomConnected
  THEN [u EXCEPT !.walletInstalled = isPhantomInstalled,
                 !.publicKey = getConnectedPublicKey, !.walletConnected = TRUE]
  ELSE [u EXCEPT !.walletInstalled = isPhantomInstalled]

\* Mounting: the mount effect checkPhantomStatus runs; the listener effect's
\* first run returns early, walletInstalled being false still. s is the
\* setup call its re-run will make (0 when the wallet is not installed).
Mount(s) ==
  /\ ~ui.mounted
  /\ IF isPhantomInstalled THEN s \in Subs /\ FreshSub(s) ELSE s = 0
  /\ ui' = checkPhantomStatus([UiUnmounted EXCEPT !.mounted = TRUE])
  /\ sub' = IF s \in Subs
            THEN [sub EXCEPT ![s] = [state |-> "reserved", owner |-> "ui", cbs |-> Events,
                                     bound |-> FALSE, teardowns |-> 0]]
            ELSE sub
  /\ last' = NoCall
  /\ provCalls' = {}
  /\ invoked' = NoneInvoked
  /\ UNCHANGED <<twi, dbg, test, form, win, impl, loaded, prov, listeners, pend, adapter, everConnected>>

\* The listener effect re-runs after the render with walletInstalled true:
\* it calls setupPhantomEventListeners with the component's three callbacks.
ListenerEffect(s) ==
  /\ ui.mounted /\ ui.walletInstalled
  /\ ui.sub = 0
  /\ sub[s].state = "reserved"
  /\ listeners' = setupListeners(s, Events)
  /\ sub' = [sub EXCEPT ![s].state = "active", ![s].bound = getPhantomProvider]
  /\ ui' = [ui EXCEPT !.sub = s]
  /\ last' = NoCall
  /\ provCalls' = {}
  /\ invoked' = NoneInvoked
  /\ UNCHANGED <<twi, dbg, test, form, win, impl, loaded, prov, pend, adapter, everConnected>>

\* Unmounting: the listener effect's cleanup calls removeEventListeners()
Unmount ==
  /\ ui.mounted
  /\ pend["ui"] = "none"
  /\ ui' = UiUnmounted
  /\ listeners' = IF ui.sub \in Subs THEN teardownListeners(ui.sub) ELSE listeners
  /\ sub' = [s \in Subs |->
               IF s = ui.sub THEN [sub[s] EXCEPT !.state = "torn", !.teardowns = 1]
               ELSE IF sub[s].state = "reserved" THEN [sub[s] EXCEPT !.state = "skipped"]
               ELSE sub[s]]
  /\ last' = NoCall
  /\ provCalls' = {}
  /\ invoked' = NoneInvoked
  /\ UNCHANGED <<twi, dbg, test, form, win, impl, loaded, prov, pend, adapter, everConnected>>

\* The buttons are rendered once walletInstalled is true; the effects of
\* that render have run before a click is handled.
ButtonsRendered == ui.mounted /\ ui.walletInstalled /\ ui.sub \in Subs

\* a Connect button without the disabled attribute
HandleConnectNotDisabled ==
  /\ ButtonsRendered /\ ~ui.walletConnected
  /\ IF getPhantomProvider
     THEN /\ pend' = [pend EXCEPT !["ui"] = "connect"]
          /\ provCalls' = {"connect"}
          /\ ui' = [ui EXCEPT !.error = NullMsg, !.isLoading = TRUE]
          /\ last' = NoCall
     ELSE /\ pend' = pend
          /\ provCalls' = {}
          /\ ui' = [ui EXCEPT !.error = NotInstalledConnect.message, !.isLoading = FALSE]
          /\ last' = Threw("ui", "connect", NotInstalledConnect)
  /\ invoked' = NoneInvoked
  /\ UNCHANGED <<twi, dbg, test, form, win, impl, loaded, prov, listeners, adapter, sub, everConnected>>

\* handleConnect, up to its await: the Connect button is rendered when the
\* wallet is installed and not connected, and disabled while isLoading
HandleConnect ==
  /\ ButtonsRendered /\ ~ui.walletConnected /\ ~ui.isLoading
  /\ IF getPhantomProvider
     THEN /\ pend' = [pend EXCEPT !["ui"] = "connect"]
          /\ provCalls' = {"connect"}
          /\ ui' = [ui EXCEPT !.error = NullMsg, !.isLoading = TRUE]
          /\ last' = NoCall
     ELSE /\ pend' = pend
          /\ provCalls' = {}
          /\ ui' = [ui EXCEPT !.error = NotInstalledConnect.message, !.isLoading = FALSE]
          /\ last' = Threw("ui", "connect", NotInstalledConnect)
  /\ invoked' = NoneInvoked
  /\ UNCHANGED <<twi, dbg, test, form, win, impl, loaded, prov, listeners, adapter, sub, everConnected>>

\* handleConnect after connectPhantomWallet() returned pubKey
handleConnectOk(u, pubKey) ==
  [u EXCEPT !.publicKey = pubKey, !.walletConnected = TRUE, !.isLoading = FALSE]

\* a catch block that logs the error and does not store its message
handleFailedNoMessage(u, e) == [u EXCEPT !.isLoading = FALSE]

\* handleConnect's and handleDisconnect's catch and finally
handleFailed(u, e) == [u EXCEPT !.error = e.message, !.isLoading = FALSE]

HandleConnectResolve(k) ==
  /\ pend["ui"] = "connect"
  /\ k \in ApprovedKeys
  /\ LET evs == ConnectEmits(prov)
         arg == PublicKey(k)
     IN /\ prov' = ConnectedAs(k)
        /\ adapter' = AdapterOn(adapter, evs, arg)
        /\ ui' = handleConnectOk(UiOn(ui, evs, arg), toString(arg))
        /\ invoked' = CallbacksOn(evs, arg, adapter, 0)
        /\ last' = Returned("ui", "connect", toString(arg))
  /\ pend' = [pend EXCEPT !["ui"] = "none"]
  /\ provCalls' = {}
  /\ everConnected' = TRUE
  /\ UNCHANGED <<twi, dbg, test, form, win, impl, loaded, listeners, sub>>

HandleConnectReject(e) ==
  /\ pend["ui"] = "connect"
  /\ ui' = handleFailed(ui, e)
  /\ last' = Threw("ui", "connect", e)
  /\ pend' = [pend EXCEPT !["ui"] = "none"]
  /\ provCalls' = {}
  /\ invoked' = NoneInvoked
  /\ UNCHANGED <<twi, dbg, test, form, win, impl, loaded, prov, listeners, adapter, sub, everConnected>>

\* handleDisconnect, up to its await: the Disconnect button is rendered
\* when the component shows the wallet connected
HandleDisconnect ==
  /\ ButtonsRendered /\ ui.walletConnected /\ ~ui.isLoading
  /\ IF getPhantomProvider
     THEN /\ pend' = [pend EXCEPT !["ui"] = "disconnect"]
          /\ provCalls' = {"disconnect"}
          /\ ui' = [ui EXCEPT !.error = NullMsg, !.isLoading = TRUE]
          /\ last' = NoCall
     ELSE /\ pend' = pend
          /\ provCalls' = {}
          /\ last' = DisconnectNoProvider("ui")
          /\ ui' = IF last'.outcome = "ok"
                   THEN [ui EXCEPT !.error = NullMsg, !.publicKey = Null,
                                   !.walletConnected = FALSE, !.isLoading = FALSE]
                   ELSE handleFailed(ui, last'.err)
  /\ invoked' = NoneInvoked
  /\ UNCHANGED <<twi, dbg, test, form, win, impl, loaded, prov, listeners, adapter, sub, everConnected>>

\* handleDisconnect after disconnectPhantomWallet() returned
handleDisconnectOk(u) ==
  [u EXCEPT !.publicKey = Null, !.walletConnected = FALSE, !.isLoading = FALSE]

HandleDisconnectResolve ==
  /\ pend["ui"] = "disconnect"
  /\ LET evs == DisconnectEmits(prov)
     IN /\ prov' = Disconnected
        /\ adapter' = AdapterOn(adapter, evs, Null)
        /\ ui' = handleDisconnectOk(UiOn(ui, evs, Null))
        /\ invoked' = CallbacksOn(evs, Null, adapter, 0)
  /\ last' = Returned("ui", "disconnect", Undefined)
  /\ pend' = [pend EXCEPT !["ui"] = "none"]
  /\ provCalls' = {}
  /\ UNCHANGED <<twi, dbg, test, form, win, impl, loaded, listeners, sub, everConnected>>

HandleDisconnectReject(e) ==
  /\ pend["ui"] = "disconnect"
  /\ prov.isConnected
  /\ ui' = handleFailed(ui, e)
  /\ last' = Threw("ui", "disconnect", e)
  /\ pend' = [pend EXCEPT !["ui"] = "none"]
  /\ provCalls' = {}
  /\ invoked' = NoneInvoked
  /\ UNCHANGED <<twi, dbg, test, form, win, impl, loaded, prov, listeners, adapter, sub, everConnected>>

\* handleAddToken (MinimalPhantomExample), up to its await: the Add Token
\* button is rendered while the component shows the wallet connected, and
\* disabled while isLoading or while the address field is empty
HandleAddToken ==
  /\ ButtonsRendered /\ ui.walletConnected /\ ~ui.isLoading
  /\ IF AddTokenCheck = NoErr
     THEN /\ pend' = [pend EXCEPT !["ui"] = "request"]
          /\ provCalls' = {"request"}
          /\ ui' = [ui EXCEPT !.error = NullMsg, !.isLoading = TRUE]
          /\ last' = NoCall
     ELSE /\ pend' = pend
          /\ provCalls' = {}
          /\ ui' = handleFailed(ui, AddTokenCheck)
          /\ last' = Threw("ui", "addToken", AddTokenCheck)
  /\ invoked' = NoneInvoked
  /\ UNCHANGED <<twi, dbg, test, form, win, impl, loaded, prov, listeners, adapter, sub, everConnected>>

\* a finally that is skipped when the call succeeded
handleAddTokenOkStaysLoading(u) == u

\* handleAddToken after addTokenToPhantomWallet() returned
handleAddTokenOk(u) == [u EXCEPT !.isLoading = FALSE]

HandleAddTokenResolve ==
  /\ pend["ui"] = "request"
  /\ ui' = handleAddTokenOk(ui)
  /\ last' = Returned("ui", "addToken", AddTokenResult)
  /\ pend' = [pend EXCEPT !["ui"] = "none"]
  /\ provCalls' = {}
  /\ invoked' = NoneInvoked
  /\ UNCHANGED <<twi, dbg, test, form, win, impl, loaded, prov, listeners, adapter, sub, everConnected>>

HandleAddTokenReject(e) ==
  /\ pend["ui"] = "request"
  /\ ui' = handleFailed(ui, e)
  /\ last' = Threw("ui", "addToken", e)
  /\ pend' = [pend EXCEPT !["ui"] = "none"]
  /\ provCalls' = {}
  /\ invoked' = NoneInvoked
  /\ UNCHANGED <<twi, dbg, test, form, win, impl, loaded, prov, listeners, adapter, sub, everConnected>>

\* ------------------------------------------- TokenCreationForm's handlers
\* onChange of the name, symbol and supply fields
FormInput(name, symbol, supply) ==
  /\ form.stage = "idle"
  /\ form' = [form EXCEPT !.tokenName = name, !.tokenSymbol = symbol, !.tokenSupply = supply]
  /\ form' # form
  /\ last' = NoCall
  /\ provCalls' = {}
  /\ invoked' = NoneInvoked
  /\ UNCHANGED <<twi, dbg, test, win, impl, loaded, prov, listeners, pend, adapter, ui, sub, everConnected>>

\* checkWalletConnection: on mount and every 2 s
FormPoll ==
  /\ form' = IF isPhantomConnected
             THEN [form EXCEPT !.walletConnected = TRUE, !.walletAddress = getConnectedPublicKey]
             ELSE [form EXCEPT !.walletConnected = FALSE]
  /\ form' # form
  /\ last' = NoCall
  /\ provCalls' = {}
  /\ invoked' = NoneInvoked
  /\ UNCHANGED <<twi, dbg, test, win, impl, loaded, prov, listeners, pend, adapter, ui, sub, everConnected>>

\* handleSubmit, up to its first await (connectPhantomWallet when the form
\* holds the wallet not connected, else the simulated creation) or its
\* return. The handler is taken for every state of the form it can be
\* called in while no earlier call of it is running.
FormSubmit ==
  /\ form.stage = "idle"
  /\ pend["form"] = "none"
  /\ IF formInvalid(form)
     THEN /\ form' = [formReset(form) EXCEPT !.error = RequiredMessage]
          /\ pend' = pend
          /\ provCalls' = {}
     ELSE IF form.walletConnected
     THEN /\ form' = [formReset(form) EXCEPT !.isCreating = TRUE, !.stage = "creating"]
          /\ pend' = pend
          /\ provCalls' = {}
     ELSE IF getPhantomProvider
     THEN /\ form' = [formReset(form) EXCEPT !.stage = "connecting"]
          /\ pend' = [pend EXCEPT !["form"] = "connect"]
          /\ provCalls' = {"connect"}
     ELSE /\ form' = [formReset(form) EXCEPT
                        !.error = "Failed to connect wallet: " \o NotInstalledConnect.message]
          /\ pend' = pend
          /\ provCalls' = {}
  /\ last' = IF form'.stage = "idle" THEN Returned("form", "submit", Undefined) ELSE NoCall
  /\ invoked' = NoneInvoked
  /\ UNCHANGED <<twi, dbg, test, win, impl, loaded, prov, listeners, adapter, ui, sub, everConnected>>

\* connectPhantomWallet() returned: the creation starts
FormConnectResolve(k) ==
  /\ pend["form"] = "connect"
  /\ k \in ApprovedKeys
  /\ LET evs == ConnectEmits(prov)
         arg == PublicKey(k)
     IN /\ prov' = ConnectedAs(k)
        /\ adapter' = AdapterOn(adapter, evs, arg)
        /\ ui' = UiOn(ui, evs, arg)
        /\ invoked' = CallbacksOn(evs, arg, adapter, 0)
        /\ form' = [form EXCEPT !.walletConnected = TRUE, !.walletAddress = toString(arg),
                                !.isCreating = TRUE, !.stage = "creating"]
  /\ last' = NoCall
  /\ pend' = [pend EXCEPT !["form"] = "none"]
  /\ provCalls' = {}
  /\ everConnected' = TRUE
  /\ UNCHANGED <<twi, dbg, test, win, impl, loaded, listeners, sub>>

\* connectPhantomWallet() threw: handleSubmit sets the error and returns
FormConnectReject(e) ==
  /\ pend["form"] = "connect"
  /\ form' = [form EXCEPT !.error = "Failed to connect wallet: " \o e.message,
                          !.stage = "idle"]
  /\ last' = Returned("form", "submit", Undefined)
  /\ pend' = [pend EXCEPT !["form"] = "none"]
  /\ provCalls' = {}
  /\ invoked' = NoneInvoked
  /\ UNCHANGED <<twi, dbg, test, win, impl, loaded, prov, listeners, adapter, ui, sub, everConnected>>

\* the 2 s timer of the simulated creation fired: the made-up address and the
\* success message are stored, then addTokenToPhantomWallet is called
FormCreated ==
  /\ form.stage = "creating"
  /\ LET made == [form EXCEPT
                    !.createdTokenAddress = MockTokenAddress,
                    !.success = "Token " \o form.tokenName \o " (" \o form.tokenSymbol
                                \o ") created successfully!"]
     IN IF AddTokenCheck = NoErr
        THEN /\ form' = [made EXCEPT !.stage = "adding"]
             /\ pend' = [pend EXCEPT !["form"] = "request"]
             /\ provCalls' = {"request"}
             /\ last' = NoCall
        ELSE /\ form' = [made EXCEPT
                           !.error = "Token created but failed to add to wallet: "
                                     \o AddTokenCheck.message,
                           !.isCreating = FALSE, !.stage = "idle"]
             /\ pend' = pend
             /\ provCalls' = {}
             /\ last' = Returned("form", "submit", Undefined)
  /\ invoked' = NoneInvoked
  /\ UNCHANGED <<twi, dbg, test, win, impl, loaded, prov, listeners, adapter, ui, sub, everConnected>>

FormAddTokenResolve ==
  /\ pend["form"] = "request"
  /\ form' = [form EXCEPT !.isCreating = FALSE, !.stage = "idle"]
  /\ last' = Returned("form", "submit", Undefined)
  /\ pend' = [pend EXCEPT !["form"] = "none"]
  /\ provCalls' = {}
  /\ invoked' = NoneInvoked
  /\ UNCHANGED <<twi, dbg, test, win, impl, loaded, prov, listeners, adapter, ui, sub, everConnected>>

FormAddTokenReject(e) ==
  /\ pend["form"] = "request"
  /\ form' = [form EXCEPT
                !.error = "Token created but failed to add to wallet: " \o e.message,
                !.isCreating = FALSE, !.stage = "idle"]
  /\ last' = Returned("form", "submit", Undefined)
  /\ pend' = [pend EXCEPT !["form"] = "none"]
  /\ provCalls' = {}
  /\ invoked' = NoneInvoked
  /\ UNCHANGED <<twi, dbg, test, win, impl, loaded, prov, listeners, adapter, ui, sub, everConnected>>

\* ------------------------------------------------------------ runTests
\* Tests 1 to 4 and Test 5 up to its await: aborts when the wallet is not
\* installed or the locator returns null, else registers its three
\* callbacks and calls connectPhantomWallet()
TestStart(s) ==
  /\ test.pc = "idle"
  /\ IF isPhantomInstalled /\ getPhantomProvider
     THEN /\ FreshSub(s)
          /\ listeners' = setupListeners(s, Events)
          /\ sub' = [sub EXCEPT ![s] = [state |-> "active", owner |-> "test", cbs |-> Events,
                                        bound |-> TRUE, teardowns |-> 0]]
          /\ test' = [test EXCEPT !.pc = "t5", !.sub = s]
          /\ pend' = [pend EXCEPT !["test"] = "connect"]
          /\ provCalls' = {"connect"}
     ELSE /\ s = MaxSubs
          /\ test' = [test EXCEPT !.pc = "aborted"]
          /\ UNCHANGED <<twi, dbg, listeners, sub, pend>>
          /\ provCalls' = {}
  /\ last' = NoCall
  /\ invoked' = NoneInvoked
  /\ UNCHANGED <<twi, dbg, win, impl, loaded, prov, adapter, ui, everConnected, form>>

\* Test 10 up to its await, entered with what Test 9 read
testReconnect(t, connected) == [t EXCEPT !.connectedAfterDisconnect = connected, !.pc = "t10"]

\* Test 5 resolved; Test 6 reads the connection state; Test 7 calls
\* addTokenToPhantomWallet
TestConnectResolve(k) ==
  /\ test.pc = "t5"
  /\ k \in ApprovedKeys
  /\ LET evs == ConnectEmits(prov)
         arg == PublicKey(k)
     IN /\ prov' = ConnectedAs(k)
        /\ adapter' = AdapterOn(adapter, evs, arg)
        /\ ui' = UiOn(ui, evs, arg)
        /\ invoked' = CallbacksOn(evs, arg, adapter, 0)
        /\ last' = Returned("test", "connect", toString(arg))
  /\ test' = [test EXCEPT !.t5 = "ok", !.connectedAfterAttempt = TRUE, !.pc = "t7"]
  /\ pend' = [pend EXCEPT !["test"] = "request"]
  /\ provCalls' = {"request"}
  /\ everConnected' = TRUE
  /\ UNCHANGED <<twi, dbg, win, impl, loaded, listeners, sub, form>>

\* Test 5 rejected; Test 6 reads the connection state: connected (a session
\* of another client) goes on to Test 7, else to Tests 9 and 10
TestConnectReject(e) ==
  /\ test.pc = "t5"
  /\ IF isPhantomConnected
     THEN /\ test' = [test EXCEPT !.t5 = "error", !.connectedAfterAttempt = TRUE, !.pc = "t7"]
          /\ pend' = [pend EXCEPT !["test"] = "request"]
          /\ provCalls' = {"request"}
     ELSE /\ test' = testReconnect([test EXCEPT !.t5 = "error"], isPhantomConnected)
          /\ pend' = [pend EXCEPT !["test"] = "connect"]
          /\ provCalls' = {"connect"}
  /\ last' = Threw("test", "connect", e)
  /\ invoked' = NoneInvoked
  /\ UNCHANGED <<twi, dbg, win, impl, loaded, prov, listeners, adapter, ui, sub, everConnected, form>>

\* Test 7 settled either way; Test 8 calls disconnectPhantomWallet()
TestAddTokenSettles ==
  /\ test.pc = "t7"
  /\ test' = [test EXCEPT !.pc = "t8"]
  /\ pend' = [pend EXCEPT !["test"] = "disconnect"]
  /\ provCalls' = {"disconnect"}
  /\ last' = NoCall
  /\ invoked' = NoneInvoked
  /\ UNCHANGED <<twi, dbg, win, impl, loaded, prov, listeners, adapter, ui, sub, everConnected, form>>

\* Test 8 resolved; Test 9 reads isPhantomConnected(); Test 10 calls
\* connectPhantomWallet() again
TestDisconnectResolve ==
  /\ test.pc = "t8"
  /\ LET evs == DisconnectEmits(prov)
     IN /\ prov' = Disconnected
        /\ adapter' = AdapterOn(adapter, evs, Null)
        /\ ui' = UiOn(ui, evs, Null)
        /\ invoked' = CallbacksOn(evs, Null, adapter, 0)
  /\ UNCHANGED <<twi, dbg, win, impl, loaded, listeners, sub, everConnected, form>>
  /\ test' = testReconnect([test EXCEPT !.t8 = "ok"], isPhantomConnected')
  /\ last' = Returned("test", "disconnect", Undefined)
  /\ pend' = [pend EXCEPT !["test"] = "connect"]
  /\ provCalls' = {"connect"}

TestDisconnectReject(e) ==
  /\ test.pc = "t8"
  /\ prov.isConnected
  /\ test' = testReconnect([test EXCEPT !.t8 = "error"], isPhantomConnected)
  /\ last' = Threw("test", "disconnect", e)
  /\ pend' = [pend EXCEPT !["test"] = "connect"]
  /\ provCalls' = {"connect"}
  /\ invoked' = NoneInvoked
  /\ UNCHANGED <<twi, dbg, win, impl, loaded, prov, listeners, adapter, ui, sub, everConnected, form>>

\* Test 10 resolved; removeListeners()
TestReconnectResolve(k) ==
  /\ test.pc = "t10"
  /\ k \in ApprovedKeys
  /\ LET evs == ConnectEmits(prov)
         arg == PublicKey(k)
     IN /\ prov' = ConnectedAs(k)
        /\ adapter' = AdapterOn(adapter, evs, arg)
        /\ ui' = UiOn(ui, evs, arg)
        /\ invoked' = CallbacksOn(evs, arg, adapter, 0)
        /\ last' = Returned("test", "connect", toString(arg))
  /\ test' = [test EXCEPT !.t10 = "ok", !.pc = "done"]
  /\ listeners' = teardownListeners(test.sub)
  /\ sub' = [sub EXCEPT ![test.sub].state = "torn", ![test.sub].teardowns = 1]
  /\ pend' = [pend EXCEPT !["test"] = "none"]
  /\ provCalls' = {}
  /\ everConnected' = TRUE
  /\ UNCHANGED <<twi, dbg, win, impl, loaded, form>>

TestReconnectReject(e) ==
  /\ test.pc = "t10"
  /\ test' = [test EXCEPT !.t10 = "error", !.pc = "done"]
  /\ listeners' = teardownListeners(test.sub)
  /\ sub' = [sub EXCEPT ![test.sub].state = "torn", ![test.sub].teardowns = 1]
  /\ last' = Threw("test", "connect", e)
  /\ pend' = [pend EXCEPT !["test"] = "none"]
  /\ provCalls' = {}
  /\ invoked' = NoneInvoked
  /\ UNCHANGED <<twi, dbg, win, impl, loaded, prov, adapter, ui, everConnected, form>>

\* ---------------------------------------------------------- debugUtils
\* MyApp's effect: initDebugTools({ enabled: true, logLevel: 'debug' }), then
\* window.addEventListener('keydown', handleKeyDown)
AppMount ==
  /\ ~dbg.shell
  /\ dbg.inits < MaxInits
  /\ dbg' = [initDebugTools(dbg, "true", "debug") EXCEPT !.shell = TRUE]
  /\ UNCHANGED <<twi, win, impl, loaded, prov, listeners, pend, adapter, ui, sub,
                 invoked, provCalls, last, everConnected, form, test>>

\* the effect's cleanup: window.removeEventListener('keydown', handleKeyDown)
AppUnmount ==
  /\ dbg.shell
  /\ dbg' = [dbg EXCEPT !.shell = FALSE]
  /\ UNCHANGED <<twi, win, impl, loaded, prov, listeners, pend, adapter, ui, sub,
                 invoked, provCalls, last, everConnected, form, test>>

\* the module's DOMContentLoaded listener: initDebugTools()
DomContentLoaded ==
  /\ ~dbg.dom
  /\ dbg.inits < MaxInits
  /\ dbg' = [initDebugTools(dbg, "undefined", "undefined") EXCEPT !.dom = TRUE]
  /\ UNCHANGED <<twi, win, impl, loaded, prov, listeners, pend, adapter, ui, sub,
                 invoked, provCalls, last, everConnected, form, test>>

\* one keydown event on window
KeyDown(ctrlKey, shiftKey, key) ==
  /\ dbg' = IF ctrlKey /\ shiftKey /\ key = "D"
            THEN [dbg EXCEPT !.console = dispatchKeyD(@, keydownListeners(dbg)),
                             !.appended = @ + dispatchKeyDAppends(dbg.console, keydownListeners(dbg))]
            ELSE IF ctrlKey /\ shiftKey /\ key = "L"
            THEN dispatchKeyLLogs(dbg, dbg.inits)
            ELSE dbg
  /\ UNCHANGED <<twi, win, impl, loaded, prov, listeners, pend, adapter, ui, sub,
                 invoked, provCalls, last, everConnected, form, test>>

\* the console's X button: hideDebugConsole
CloseButton ==
  /\ dbg.console = "flex"
  /\ dbg' = [dbg EXCEPT !.console = hideDebugConsole(@)]
  /\ UNCHANGED <<twi, win, impl, loaded, prov, listeners, pend, adapter, ui, sub,
                 invoked, provCalls, last, everConnected, form, test>>

\* Test 1 of the test page's runAllTests up to its await of the 1 s timer:
\* toggleDebugConsole()
Test1Open ==
  /\ dbg.t1 \in {"idle", "done"}
  /\ dbg' = [dbg EXCEPT !.console = toggleDebugConsole(@),
                        !.appended = @ + toggleAppends(dbg.console),
                        !.t1 = "open", !.t1shown = Shown(dbg.console)]
  /\ UNCHANGED <<twi, win, impl, loaded, prov, listeners, pend, adapter, ui, sub,
                 invoked, provCalls, last, everConnected, form, test>>

\* the timer fired: toggleDebugConsole() again
Test1Close ==
  /\ dbg.t1 = "open"
  /\ dbg' = [dbg EXCEPT !.console = toggleDebugConsole(@),
                        !.appended = @ + toggleAppends(dbg.console),
                        !.t1 = "done"]
  /\ UNCHANGED <<twi, win, impl, loaded, prov, listeners, pend, adapter, ui, sub,
                 invoked, provCalls, last, everConnected, form, test>>

\* a call of initDebugTools(options) with any options
InitDebugToolsCall(enabled, logLevel) ==
  /\ dbg.inits < MaxInits
  /\ dbg' = initDebugTools(dbg, enabled, logLevel)
  /\ UNCHANGED <<twi, win, impl, loaded, prov, listeners, pend, adapter, ui, sub,
                 invoked, provCalls, last, everConnected, form, test>>

\* a command entered in the console's input, or executeDebugCommand called
ExecuteDebugCommand(cmd, arg) ==
  /\ dbg' = executeDebugCommand(dbg, cmd, arg)
  /\ UNCHANGED <<twi, win, impl, loaded, prov, listeners, pend, adapter, ui, sub,
                 invoked, provCalls, last, everConnected, form, test>>

ProviderPresent == win \in {"phantom", "inert", "legacy"}

\* the wallet extension injects its object after the page's scripts ran
Inject ==
  /\ win \in {"none", "empty"}
  /\ win' = "phantom"
  /\ last' = NoCall
  /\ provCalls' = {}
  /\ invoked' = NoneInvoked
  /\ UNCHANGED <<twi, dbg, test, form, impl, loaded, prov, listeners, pend, adapter, ui, sub, everConnected>>

\* the user switches, in the wallet, to another account the site may see
AccountChanged(k) ==
  /\ prov.isConnected
  /\ prov.publicKey # PublicKey(k)
  /\ prov' = ConnectedAs(k)
  /\ adapter' = AdapterOn(adapter, {"accountChanged"}, PublicKey(k))
  /\ ui' = UiOn(ui, {"accountChanged"}, PublicKey(k))
  /\ invoked' = CallbacksOn({"accountChanged"}, PublicKey(k), adapter, 0)
  /\ last' = NoCall
  /\ provCalls' = {}
  /\ UNCHANGED <<twi, dbg, test, form, win, impl, loaded, listeners, pend, sub, everConnected>>

\* the user switches to an account the site may not see: the event carries
\* no key and the session is gone
AccountChangedNull ==
  /\ prov.isConnected
  /\ prov' = Disconnected
  /\ adapter' = AdapterOn(adapter, {"accountChanged"}, Null)
  /\ ui' = UiOn(ui, {"accountChanged"}, Null)
  /\ invoked' = CallbacksOn({"accountChanged"}, Null, adapter, 0)
  /\ last' = NoCall
  /\ provCalls' = {}
  /\ UNCHANGED <<twi, dbg, test, form, win, impl, loaded, listeners, pend, sub, everConnected>>

\* the user disconnects the site in the wallet: a disconnect event the
\* application did not ask for
ProviderDisconnect ==
  /\ prov.isConnected
  /\ prov' = Disconnected
  /\ adapter' = AdapterOn(adapter, {"disconnect"}, Null)
  /\ ui' = UiOn(ui, {"disconnect"}, Null)
  /\ invoked' = CallbacksOn({"disconnect"}, Null, adapter, 0)
  /\ last' = NoCall
  /\ provCalls' = {}
  /\ UNCHANGED <<twi, dbg, test, form, win, impl, loaded, listeners, pend, sub, everConnected>>

\* --------------------------------- TestWalletIntegration's handlers
\* the mount effect: checkPhantomInstallation
TwiMount ==
  /\ ~twi.mounted
  /\ twi' = [twi EXCEPT !.mounted = TRUE, !.isPhantomInstalled = checkPhantomInstallation]
  /\ last' = NoCall
  /\ provCalls' = {}
  /\ invoked' = NoneInvoked
  /\ UNCHANGED <<win, impl, loaded, prov, listeners, pend, adapter, ui, sub,
                 everConnected, form, test, dbg>>

\* A click on one of the four single-test buttons, each rendered with its
\* disabled condition; the handler runs up to its await.
TwiButton(stage) ==
  /\ twi.mounted /\ ~twi.isLoading
  /\ \/ stage = "connect" /\ twi.isPhantomInstalled /\ ~twi.walletConnected
     \/ stage = "disconnect" /\ twi.walletConnected
     \/ stage = "popup" /\ twi.isPhantomInstalled
     \/ stage = "addToken" /\ twi.walletConnected
  /\ adapter' = getPhantomWallet(adapter)
  /\ listeners' = getPhantomWalletListeners
  /\ twi' = twiStart([twi EXCEPT !.mode = "single", !.c = twi.walletConnected,
                                 !.steps = <<>>, !.finished = "none"],
                     adapter', stage)
  /\ pend' = [pend EXCEPT !["twi"] = twiPending(twi'.pc)]
  /\ provCalls' = {twiPending(twi'.pc)} \ {"none"}
  /\ last' = NoCall
  /\ invoked' = NoneInvoked
  /\ UNCHANGED <<win, impl, loaded, prov, ui, sub, everConnected, form, test, dbg>>

\* A click on Run All Tests: runAllTests up to its first await of a
\* provider call
TwiRunAllTests ==
  /\ twi.mounted /\ ~twi.isLoading /\ twi.isPhantomInstalled
  /\ LET isInstalled == checkPhantomInstallation
         t0 == [twi EXCEPT !.isLoading = TRUE,
                           !.testResults = [n \in TwiTests |->
                              IF n = "phantomInstallation"
                              THEN (IF isInstalled THEN "PASS" ELSE "FAIL") ELSE "none"],
                           !.isPhantomInstalled = isInstalled,
                           !.mode = "all", !.c = twi.walletConnected,
                           !.steps = <<>>, !.finished = "none"]
     IN IF isInstalled
        THEN /\ adapter' = getPhantomWallet(adapter)
             /\ listeners' = getPhantomWalletListeners
             /\ twi' = twiStart(t0, adapter', "connect")
        ELSE /\ twi' = twiStart(t0, adapter, "end")
             /\ UNCHANGED <<adapter, listeners>>
  /\ pend' = [pend EXCEPT !["twi"] = twiPending(twi'.pc)]
  /\ provCalls' = {twiPending(twi'.pc)} \ {"none"}
  /\ last' = NoCall
  /\ invoked' = NoneInvoked
  /\ UNCHANGED <<win, impl, loaded, prov, ui, sub, everConnected, form, test, dbg>>

\* wallet.connect() resolved, in connectWallet (test "walletConnection") or
\* in testPopupFunctionality (test "popupFunctionality")
TwiConnectResolve(k) ==
  /\ twi.pc \in {"connect", "popupConnect"}
  /\ k \in ApprovedKeys
  /\ LET evs == ConnectEmits(prov)
         arg == PublicKey(k)
         a1 == connectContinuation(AdapterOn(adapter, evs, arg), arg)
         name == IF twi.pc = "connect" THEN "walletConnection" ELSE "popupFunctionality"
         stage == IF twi.pc = "connect" THEN "connect" ELSE "popup"
         t1 == twiRecord([twi EXCEPT !.walletConnected = TRUE,
                                     !.walletPublicKey = toString(arg)], name, "PASS")
     IN /\ prov' = ConnectedAs(k)
        /\ adapter' = a1
        /\ ui' = UiOn(ui, evs, arg)
        /\ invoked' = CallbacksOn(evs, arg, adapter, 0)
        /\ last' = Returned("twi", "connect", arg)
        /\ twi' = twiStart(twiSettled(t1), a1, twiAfter(stage, twi.mode))
  /\ pend' = [pend EXCEPT !["twi"] = twiPending(twi'.pc)]
  /\ provCalls' = {twiPending(twi'.pc)} \ {"none"}
  /\ everConnected' = TRUE
  /\ UNCHANGED <<win, impl, loaded, listeners, sub, form, test, dbg>>

TwiConnectReject(e) ==
  /\ twi.pc \in {"connect", "popupConnect"}
  /\ LET name == IF twi.pc = "connect" THEN "walletConnection" ELSE "popupFunctionality"
         stage == IF twi.pc = "connect" THEN "connect" ELSE "popup"
     IN twi' = twiStart(twiSettled(twiRecord(twi, name, "FAIL")), adapter,
                        twiAfter(stage, twi.mode))
  /\ pend' = [pend EXCEPT !["twi"] = twiPending(twi'.pc)]
  /\ provCalls' = {twiPending(twi'.pc)} \ {"none"}
  /\ last' = Threw("twi", "connect", e)
  /\ invoked' = NoneInvoked
  /\ UNCHANGED <<win, impl, loaded, prov, listeners, adapter, ui, sub,
                 everConnected, form, test, dbg>>

\* the wallet.disconnect() of testPopupFunctionality resolved: it goes on
\* to wallet.connect()
TwiPopupDisconnectResolve ==
  /\ twi.pc = "popupDisconnect"
  /\ LET evs == DisconnectEmits(prov)
         a1 == _handleDisconnect(AdapterOn(adapter, evs, Null))
     IN /\ prov' = Disconnected
        /\ adapter' = a1
        /\ ui' = UiOn(ui, evs, Null)
        /\ invoked' = CallbacksOn(evs, Null, adapter, 1)
        /\ twi' = twiStart([twi EXCEPT !.walletConnected = FALSE, !.walletPublicKey = Null],
                           a1, "popupConnect")
  /\ last' = Returned("twi", "disconnect", Undefined)
  /\ pend' = [pend EXCEPT !["twi"] = twiPending(twi'.pc)]
  /\ provCalls' = {twiPending(twi'.pc)} \ {"none"}
  /\ UNCHANGED <<win, impl, loaded, listeners, sub, everConnected, form, test, dbg>>

TwiPopupDisconnectReject(e) ==
  /\ twi.pc = "popupDisconnect"
  /\ prov.isConnected
  /\ twi' = twiStart(twiSettled(twiRecord(twi, "popupFunctionality", "FAIL")), adapter,
                     twiAfter("popup", twi.mode))
  /\ pend' = [pend EXCEPT !["twi"] = twiPending(twi'.pc)]
  /\ provCalls' = {twiPending(twi'.pc)} \ {"none"}
  /\ last' = Threw("twi", "disconnect", e)
  /\ invoked' = NoneInvoked
  /\ UNCHANGED <<win, impl, loaded, prov, listeners, adapter, ui, sub,
                 everConnected, form, test, dbg>>

\* wallet.addToken() of testAddToken settled
TwiAddTokenResolve ==
  /\ twi.pc = "addToken"
  /\ twi' = twiStart(twiSettled(twiRecord(twi, "addToken", "PASS")), adapter,
                     twiAfter("addToken", twi.mode))
  /\ pend' = [pend EXCEPT !["twi"] = twiPending(twi'.pc)]
  /\ provCalls' = {twiPending(twi'.pc)} \ {"none"}
  /\ last' = Returned("twi", "addToken", True)
  /\ invoked' = NoneInvoked
  /\ UNCHANGED <<win, impl, loaded, prov, listeners, adapter, ui, sub,
                 everConnected, form, test, dbg>>

TwiAddTokenReject(e) ==
  /\ twi.pc = "addToken"
  /\ twi' = twiStart(twiSettled(twiRecord(twi, "addToken", "FAIL")), adapter,
                     twiAfter("addToken", twi.mode))
  /\ pend' = [pend EXCEPT !["twi"] = twiPending(twi'.pc)]
  /\ provCalls' = {twiPending(twi'.pc)} \ {"none"}
  /\ last' = Threw("twi", "addToken", e)
  /\ invoked' = NoneInvoked
  /\ UNCHANGED <<win, impl, loaded, prov, listeners, adapter, ui, sub,
                 everConnected, form, test, dbg>>

\* wallet.disconnect() of disconnectWallet settled
TwiDisconnectResolve ==
  /\ twi.pc = "disconnect"
  /\ LET evs == DisconnectEmits(prov)
         a1 == _handleDisconnect(AdapterOn(adapter, evs, Null))
         t1 == twiRecord([twi EXCEPT !.walletConnected = FALSE, !.walletPublicKey = Null],
                         "walletDisconnection", "PASS")
     IN /\ prov' = Disconnected
        /\ adapter' = a1
        /\ ui' = UiOn(ui, evs, Null)
        /\ invoked' = CallbacksOn(evs, Null, adapter, 1)
        /\ twi' = twiStart(twiSettled(t1), a1, twiAfter("disconnect", twi.mode))
  /\ last' = Returned("twi", "disconnect", Undefined)
  /\ pend' = [pend EXCEPT !["twi"] = twiPending(twi'.pc)]
  /\ provCalls' = {twiPending(twi'.pc)} \ {"none"}
  /\ UNCHANGED <<win, impl, loaded, listeners, sub, everConnected, form, test, dbg>>

TwiDisconnectReject(e) ==
  /\ twi.pc = "disconnect"
  /\ prov.isConnected
  /\ twi' = twiStart(twiSettled(twiRecord(twi, "walletDisconnection", "FAIL")), adapter,
                     twiAfter("disconnect", twi.mode))
  /\ pend' = [pend EXCEPT !["twi"] = twiPending(twi'.pc)]
  /\ provCalls' = {twiPending(twi'.pc)} \ {"none"}
  /\ last' = Threw("twi", "disconnect", e)
  /\ invoked' = NoneInvoked
  /\ UNCHANGED <<win, impl, loaded, prov, listeners, adapter, ui, sub,
                 everConnected, form, test, dbg>>

\* ------------------------------------------------------------------ Next
\* The callback sets a direct caller of the event relay supplies.
CallbackChoices == {Events, {"disconnect"}}

\* connect, disconnect and add-token through the function API
ApiCalls ==
  \/ ApiConnect
  \/ \E k \in Keys : ApiConnectResolve(k)
  \/ \E e \in ProviderErrors : ApiConnectReject(e)
  \/ ApiDisconnect
  \/ ApiDisconnectResolve
  \/ \E e \in ProviderErrors : ApiDisconnectReject(e)
  \/ ApiAddToken
  \/ ApiAddTokenResolve
  \/ \E e \in ProviderErrors : ApiAddTokenReject(e)

\* the event relay, called directly
ApiRelay ==
  \/ \E s \in Subs, cbs \in CallbackChoices : ApiSetup(s, cbs)
  \/ \E s \in Subs : ApiTeardown(s)

AdapterCalls ==
  \/ AdapterConstruct
  \/ WindowLoad
  \/ AdapterSetOnDisconnect
  \/ AdapterConnect
  \/ \E k \in Keys : AdapterConnectResolve(k)
  \/ \E e \in ProviderErrors : AdapterConnectReject(e)
  \/ AdapterDisconnect
  \/ AdapterDisconnectResolve
  \/ \E e \in ProviderErrors : AdapterDisconnectReject(e)
  \/ AdapterAddToken
  \/ AdapterAddTokenResolve
  \/ \E e \in ProviderErrors : AdapterAddTokenReject(e)

UiSteps ==
  \/ \E s \in Subs \cup {0} : Mount(s)
  \/ \E s \in Subs : ListenerEffect(s)
  \/ Unmount
  \/ HandleConnect
  \/ \E k \in Keys : HandleConnectResolve(k)
  \/ \E e \in ProviderErrors : HandleConnectReject(e)
  \/ HandleDisconnect
  \/ HandleDisconnectResolve
  \/ \E e \in ProviderErrors : HandleDisconnectReject(e)
  \/ HandleAddToken
  \/ HandleAddTokenResolve
  \/ \E e \in ProviderErrors : HandleAddTokenReject(e)

ProviderSteps ==
  \/ Inject
  \/ \E k \in Keys : AccountChanged(k)
  \/ AccountChangedNull
  \/ ProviderDisconnect

FormSteps ==
  \/ \E name \in TokenNames, symbol \in TokenSymbols, supply \in TokenSupplies :
        FormInput(name, symbol, supply)
  \/ FormPoll
  \/ FormSubmit
  \/ \E k \in Keys : FormConnectResolve(k)
  \/ \E e \in ProviderErrors : FormConnectReject(e)
  \/ FormCreated
  \/ FormAddTokenResolve
  \/ \E e \in ProviderErrors : FormAddTokenReject(e)

TestSteps ==
  \/ \E s \in Subs : TestStart(s)
  \/ \E k \in Keys : TestConnectResolve(k)
  \/ \E e \in ProviderErrors : TestConnectReject(e)
  \/ TestAddTokenSettles
  \/ TestDisconnectResolve
  \/ \E e \in ProviderErrors : TestDisconnectReject(e)
  \/ \E k \in Keys : TestReconnectResolve(k)
  \/ \E e \in ProviderErrors : TestReconnectReject(e)

DebugSteps ==
  \/ AppMount
  \/ AppUnmount
  \/ DomContentLoaded
  \/ \E ctrlKey \in BOOLEAN, shiftKey \in BOOLEAN, key \in Keys3 : KeyDown(ctrlKey, shiftKey, key)
  \/ CloseButton
  \/ Test1Open
  \/ Test1Close

TwiButtons == {"connect", "disconnect", "popup", "addToken"}

TwiClicks ==
  \/ \E stage \in TwiButtons : TwiButton(stage)
  \/ TwiRunAllTests

TwiSteps ==
  \/ TwiMount
  \/ TwiClicks
  \/ \E k \in Keys : TwiConnectResolve(k)
  \/ \E e \in ProviderErrors : TwiConnectReject(e)
  \/ TwiPopupDisconnectResolve
  \/ \E e \in ProviderErrors : TwiPopupDisconnectReject(e)
  \/ TwiAddTokenResolve
  \/ \E e \in ProviderErrors : TwiAddTokenReject(e)
  \/ TwiDisconnectResolve
  \/ \E e \in ProviderErrors : TwiDisconnectReject(e)

\* a page that uses all of it
Next ==
  ApiCalls \/ ApiRelay \/ AdapterCalls \/ UiSteps \/ FormSteps \/ TestSteps \/ DebugSteps \/ TwiSteps \/ ProviderSteps
Spec == Init /\ [][Next]_vars

\* a page that uses the adapter and the function API (no connect button)
NextAdapter == ApiCalls \/ AdapterCalls \/ ProviderSteps
SpecAdapter == Init /\ [][NextAdapter]_vars

\* a page that calls the function API and its event relay directly
NextRelay == ApiCalls \/ ApiRelay \/ ProviderSteps
SpecRelay == Init /\ [][NextRelay]_vars

\* a page with the connect button, the function API beside it
NextUi == ApiCalls \/ UiSteps \/ ProviderSteps
SpecUi == Init /\ [][NextUi]_vars

\* The provider settles the call the component awaits: the user answers the
\* wallet's prompt, or the wallet fails.
UiCallSettles ==
  \/ \E k \in Keys : HandleConnectResolve(k)
  \/ \E e \in ProviderErrors : HandleConnectReject(e)
  \/ HandleDisconnectResolve
  \/ \E e \in ProviderErrors : HandleDisconnectReject(e)
  \/ HandleAddTokenResolve
  \/ \E e \in ProviderErrors : HandleAddTokenReject(e)

\* the same page, with every provider call of the component settled in the end
SpecUiFair == SpecUi /\ WF_vars(UiCallSettles)

\* the token creation form, alone with the provider
NextForm == FormSteps \/ ProviderSteps
SpecForm == Init /\ [][NextForm]_vars

\* runTests on a page with the connect button
NextTest == TestSteps \/ UiSteps \/ ProviderSteps
SpecTest == Init /\ [][NextTest]_vars

\* the application shell with the debug tools
SpecDebug == Init /\ [][DebugSteps]_vars

\* debugUtils driven through initDebugTools, executeDebugCommand and the
\* keyboard shortcuts
DebugCommandSteps ==
  \/ \E enabled \in {"true", "false", "undefined"}, logLevel \in LevelArgs \cup {"undefined"} :
        InitDebugToolsCall(enabled, logLevel)
  \/ \E cmd \in DebugCommands, arg \in DebugArgs : ExecuteDebugCommand(cmd, arg)
  \/ \E ctrlKey \in BOOLEAN, shiftKey \in BOOLEAN, key \in Keys3 : KeyDown(ctrlKey, shiftKey, key)
SpecDebugCommands == Init /\ [][DebugCommandSteps]_vars

\* the wallet integration test page
NextTwi == TwiSteps \/ ProviderSteps
SpecTwi == Init /\ [][NextTwi]_vars

\* a page with the connect button and the adapter
NextAdapterUi == AdapterCalls \/ UiSteps \/ ProviderSteps
SpecAdapterUi == Init /\ [][NextAdapterUi]_vars

\* ================================================================ claims

\* C1: while no provider is injected, isPhantomConnected() is false, and a
\* connectPhantomWallet() or PhantomWalletAdapter.connect() call throws the
\* 'not installed' error, calls no provider method and changes neither the
\* provider's session nor the adapter's account and flag.
NoProviderInjected == win \in {"none", "empty"}
NotInstalledMessages ==
  {"Phantom wallet not installed. Please install it from phantom.app",
   "Phantom wallet not installed",
   "Phantom wallet not installed. Please install Phantom wallet extension."}
C2_AddTokenNeedsConnect == "request" \in provCalls => everConnected

\* C3: once the teardown function of a setup call has been called, none of
\* that call's callbacks is invoked again, whatever the provider emits.
C3_NoCallbackAfterTeardown ==
  \A s \in Subs : \A e \in Events : sub[s].state = "torn" => invoked[<<e, s>>] = 0
C3_Witness ==
  \E s, r \in Subs :
    /\ sub[s].state = "torn" /\ sub[s].bound /\ "disconnect" \in sub[s].cbs
    /\ sub[r].state = "active"
    /\ invoked[<<"disconnect", r>>] = 1

\* C4: in the connect button component, when the provider reports account A
\* on connect (to handleConnect, or by its connect event), the state becomes
\* (walletConnected, publicKey) = (true, A); when the provider afterwards
\* emits a disconnect event nobody asked for, it becomes (false, null).
UiShows(u, connected, key) == u.walletConnected = connected /\ u.publicKey = key
C4_ConnectThenExternalDisconnect ==
  [][/\ \A k \in Keys :
          \/ HandleConnectResolve(k)
          \/ (ApiConnectResolve(k) /\ ~prov.isConnected /\ ButtonsRendered)
          => UiShows(ui', TRUE, KeyString(k))
     /\ (ProviderDisconnect /\ ButtonsRendered /\ ui.walletConnected)
          => UiShows(ui', FALSE, Null)]_vars
C4_Witness ==
  /\ ButtonsRendered
  /\ UiShows(ui, FALSE, Null)
  /\ everConnected
  /\ last = NoCall
  /\ invoked[<<"disconnect", ui.sub>>] = 1

\* C5: right after connect() resolved, the value it returned and the account
\* read back (PhantomWalletAdapter.publicKey, getConnectedPublicKey()) are
\* the key the provider resolved with, and the connected flag is true.
C5_ConnectReturnsProviderKey ==
  (last.op = "connect" /\ last.outcome = "ok") =>
     /\ prov.isConnected
     /\ last.who = "adapter" =>
          /\ last.ret = prov.publicKey
          /\ adapter.publicKey = last.ret
          /\ adapter.connected
     /\ last.who = "api" =>
          /\ last.ret = toString(prov.publicKey)
          /\ getConnectedPublicKey = last.ret
          /\ isPhantomConnected
C5_Witness ==
  /\ last.who = "adapter" /\ last.op = "connect" /\ last.outcome = "ok"
  /\ adapter.publicKey = PublicKey(MaxKeys)

\* C6: disconnect called while not connected (also without a provider) does
\* not throw and changes nothing: the flag, the account and the callbacks'
\* invocation counts stay as they were.
ApiDisconnectStep ==
  ApiDisconnect \/ ApiDisconnectResolve \/ \E e \in ProviderErrors : ApiDisconnectReject(e)
AdapterDisconnectStep ==
  \/ AdapterDisconnect
  \/ AdapterDisconnectResolve
  \/ \E e \in ProviderErrors : AdapterDisconnectReject(e)
C6_DisconnectWhenNotConnectedIsNoOp ==
  [][(~prov.isConnected /\ ~adapter.connected /\ (ApiDisconnectStep \/ AdapterDisconnectStep))
       => /\ last'.outcome # "threw"
          /\ prov' = prov
          /\ adapter' = adapter
          /\ invoked' = NoneInvoked]_vars

\* C7: in every reachable state of PhantomWalletAdapter, publicKey is
\* non-null only if connected is true.
C7_AdapterKeyOnlyWhenConnected == adapter.publicKey # Null => adapter.connected

\* C8: in every reachable state of the connect button component, publicKey
\* is non-null only if walletConnected is true.
C8_UiKeyOnlyWhenConnected == ui.publicKey # Null => ui.walletConnected

\* C9: a connect attempt that fails (no provider, or the provider rejects)
\* leaves connected and publicKey of PhantomWalletAdapter, and walletConnected
\* and publicKey of the connect button component, as they were; the
\* component's error field holds the message of the error thrown.
AdapterConnectFails ==
  (AdapterConnect /\ ~_getProvider) \/ \E e \in ProviderErrors : AdapterConnectReject(e)
UiConnectFails ==
  (HandleConnect /\ ~getPhantomProvider) \/ \E e \in ProviderErrors : HandleConnectReject(e)
C9_FailedConnectLeavesState ==
  [][/\ AdapterConnectFails
          => /\ last'.outcome = "threw"
             /\ adapter'.connected = adapter.connected
             /\ adapter'.publicKey = adapter.publicKey
     /\ UiConnectFails
          => /\ last'.outcome = "threw"
             /\ UiShows(ui', ui.walletConnected, ui.publicKey)
             /\ ui'.error = last'.err.message]_vars
C9_Witness ==
  /\ last = Threw("ui", "connect", UserRejected)
  /\ ui.error = UserRejected.message
  /\ UiShows(ui, FALSE, Null)
  /\ adapter.constructed /\ adapter.connected = FALSE

\* C10: a second or later call of the teardown function of a setup call does
\* not throw and leaves the provider's listeners exactly as the first call
\* left them; the listeners of another setup call stay registered.
C10_TeardownIdempotent ==
  [][\A s \in Subs :
       (ApiTeardown(s) /\ sub[s].teardowns >= 1)
          => /\ last'.outcome = "ok"
             /\ listeners' = listeners]_vars
C10_Witness ==
  \E s, r \in Subs :
    /\ sub[s].owner = "api" /\ sub[s].bound /\ sub[s].teardowns = MaxTeardowns
    /\ sub[s].cbs = Events
    /\ sub[r].state = "active" /\ sub[r].bound
    /\ \A e \in sub[r].cbs : <<e, r>> \in listeners
    /\ \A e \in Events : <<e, s>> \notin listeners

\* C11: a setupPhantomEventListeners call made while the locator finds no
\* provider registers nothing, none of its callbacks is ever invoked, and
\* the function it returned changes nothing and does not throw, also when a
\* provider was injected after the setup call.
SetupWithoutProvider(s) == sub[s].owner = "api" /\ ~sub[s].bound
C11_SetupWithoutProviderIsNoOp ==
  /\ [](\A s \in Subs : SetupWithoutProvider(s) =>
           \A e \in Events : <<e, s>> \notin listeners /\ invoked[<<e, s>>] = 0)
  /\ [][\A s \in Subs :
          /\ (\E cbs \in CallbackChoices : ApiSetup(s, cbs)) /\ ~getPhantomProvider
               => listeners' = listeners /\ last'.outcome = "ok"
          /\ ApiTeardown(s) /\ SetupWithoutProvider(s)
               => listeners' = listeners /\ last'.outcome = "ok"]_vars
C11_Witness ==
  \E s, r \in Subs :
    /\ SetupWithoutProvider(s) /\ sub[s].teardowns >= 1
    /\ getPhantomProvider
    /\ sub[r].state = "active" /\ sub[r].bound
    /\ \A e \in sub[r].cbs : <<e, r>> \in listeners
    /\ last = Returned("api", "teardown", Undefined)

\* C12: a disconnect that succeeds from a connected state leaves
\* PhantomWalletAdapter with publicKey = null and connected = false, and the
\* component with publicKey = null and walletConnected = false; when
\* provider.disconnect() rejects, the stored account and flag stay as they
\* were.
C12_DisconnectClearsAccount ==
  [][/\ (AdapterDisconnectResolve /\ adapter.connected)
          => /\ last' = Returned("adapter", "disconnect", Undefined)
             /\ adapter'.publicKey = Null /\ adapter'.connected = FALSE
     /\ (HandleDisconnectResolve /\ ui.walletConnected)
          => /\ last' = Returned("ui", "disconnect", Undefined)
             /\ UiShows(ui', FALSE, Null)
     /\ (\E e \in ProviderErrors : AdapterDisconnectReject(e))
          => /\ last'.outcome = "threw"
             /\ adapter'.publicKey = adapter.publicKey
             /\ adapter'.connected = adapter.connected
     /\ (\E e \in ProviderErrors : HandleDisconnectReject(e))
          => /\ last'.outcome = "threw"
             /\ UiShows(ui', ui.walletConnected, ui.publicKey)]_vars
C12_Witness ==
  /\ last = Returned("adapter", "disconnect", Undefined)
  /\ invoked[OnDisconnectCb] = 2
  /\ \A s \in Subs : sub[s].state = "unused"
  /\ adapter.publicKey = Null /\ adapter.connected = FALSE
  /\ prov = Disconnected

\* C13: each provider locator returns the injected wallet object exactly
\* when that object exists with its isPhantom flag set and null otherwise
\* (no window.phantom, window.phantom without solana, an object without the
\* flag), and isPhantomInstalled() is true exactly when getPhantomProvider()
\* returns an object.
FlaggedProviderInjected == win \in {"phantom", "legacy"}
C13_LocatorFindsFlaggedProvider ==
  /\ getPhantomProvider <=> win = "phantom"
  /\ _getProvider <=> FlaggedProviderInjected
  /\ getWalletProvider <=> FlaggedProviderInjected
  /\ isPhantomInstalled <=> getPhantomProvider

\* C14: an add-token call (PhantomWalletAdapter.addToken, the scaffolded
\* addTokenToPhantomWallet) fails as wallet-unavailable when no provider is
\* present, as not-connected when a provider is present without an active
\* session, and otherwise issues exactly one provider.request; the provider's
\* rejection is rethrown, success is returned only when the request resolved,
\* and no second request is issued.
NotConnectedMessages == {"Phantom wallet not connected", "Wallet not connected"}
AddTokenDecided(provider) ==
  IF ~provider
  THEN /\ last'.outcome = "threw" /\ last'.err.message \in NotInstalledMessages
       /\ provCalls' = {}
  ELSE IF ~prov.isConnected
  THEN /\ last'.outcome = "threw" /\ last'.err.message \in NotConnectedMessages
       /\ provCalls' = {}
  ELSE /\ last' = NoCall
       /\ provCalls' = {"request"}
C14_AddTokenFailureOrder ==
  [][/\ (ApiAddToken /\ impl = "scaffold") => AddTokenDecided(getPhantomProvider)
     /\ AdapterAddToken => AddTokenDecided(_getProvider)
     /\ (ApiAddTokenResolve \/ AdapterAddTokenResolve)
          => last'.outcome = "ok" /\ provCalls' = {}
     /\ \A e \in ProviderErrors :
          (ApiAddTokenReject(e) \/ AdapterAddTokenReject(e))
             => last'.outcome = "threw" /\ last'.err = e /\ provCalls' = {}]_vars

\* C15: a connect call calls provider.connect() once at most and a
\* disconnect call provider.disconnect() once at most: the provider is
\* called in the step that makes the call and in no other, and when the
\* provider has settled (resolved or rejected) the call is over, nothing is
\* called and nothing is left pending.
ConnectCalled == ApiConnect \/ AdapterConnect
DisconnectCalled == ApiDisconnect \/ AdapterDisconnect
ConnectSettled(who) ==
  \/ who = "api" /\ \/ \E k \in Keys : ApiConnectResolve(k)
                    \/ \E e \in ProviderErrors : ApiConnectReject(e)
  \/ who = "adapter" /\ \/ \E k \in Keys : AdapterConnectResolve(k)
                        \/ \E e \in ProviderErrors : AdapterConnectReject(e)
DisconnectSettled(who) ==
  \/ who = "api" /\ \/ ApiDisconnectResolve
                    \/ \E e \in ProviderErrors : ApiDisconnectReject(e)
  \/ who = "adapter" /\ \/ AdapterDisconnectResolve
                        \/ \E e \in ProviderErrors : AdapterDisconnectReject(e)
C15_SingleAttemptPerCall ==
  [][/\ ConnectCalled => provCalls' \subseteq {"connect"}
     /\ DisconnectCalled => provCalls' \subseteq {"disconnect"}
     /\ "connect" \in provCalls' => ConnectCalled
     /\ "disconnect" \in provCalls' => DisconnectCalled
     /\ \A who \in {"api", "adapter"} :
          (ConnectSettled(who) \/ DisconnectSettled(who))
             => /\ provCalls' = {}
                /\ pend'[who] = "none"
                /\ last'.who = who /\ last'.outcome \in {"ok", "threw"}]_vars
C15_Witness ==
  /\ last = Threw("adapter", "connect", UserRejected)
  /\ provCalls = {}
  /\ pend["adapter"] = "none" /\ pend["api"] = "disconnect"

\* C16: the error the provider rejects connect, disconnect or request with
\* is the error the caller of connectPhantomWallet, disconnectPhantomWallet,
\* addTokenToPhantomWallet and of the adapter's methods receives, its message
\* and its code (4001 for a user rejection) unchanged.
ProviderRejects(e) ==
  \/ ApiConnectReject(e) \/ ApiDisconnectReject(e) \/ ApiAddTokenReject(e)
  \/ AdapterConnectReject(e) \/ AdapterDisconnectReject(e) \/ AdapterAddTokenReject(e)
C16_ProviderErrorPassedThrough ==
  [][\A e \in ProviderErrors :
       ProviderRejects(e)
          => /\ last'.outcome = "threw"
             /\ last'.err = e
             /\ last'.err.message = e.message
             /\ last'.err.code = e.code]_vars
C16_Witness ==
  /\ last.who = "api" /\ last.op = "addToken" /\ last.outcome = "threw"
  /\ last.err.code = UserRejectedCode
  /\ last.err.message = UserRejected.message
  /\ prov.isConnected

\* C17: in the connect button component isLoading is true only while a
\* provider call of the component is pending, and once the provider has
\* resolved or rejected it isLoading is false again: every isLoading = true
\* is eventually followed by isLoading = false.
C17_LoadingEndsWhenProviderSettles ==
  /\ [](ui.isLoading => pend["ui"] # "none")
  /\ [][UiCallSettles => ~ui'.isLoading]_vars
  /\ (ui.isLoading ~> ~ui.isLoading)
C17_Witness ==
  /\ last = Threw("ui", "addToken", UserRejected)
  /\ ~ui.isLoading
  /\ ui.walletConnected
  /\ ui.error = UserRejected.message

\* C18: TokenCreationForm.handleSubmit with an empty token name or an empty
\* token symbol sets the 'required' error, leaves isCreating false, calls no
\* provider method and stores no created token address; with both present it
\* goes on whatever the other fields hold; the creation is a timer after
\* which a made-up address is stored, and the only provider methods the form
\* ever calls are connect and the wallet_watchAsset request.
NameOrSymbolEmpty == form.tokenName = "" \/ form.tokenSymbol = ""
C18_SubmitValidatesPresenceOnly ==
  /\ [](form.createdTokenAddress \in {Null, MockTokenAddress})
  /\ [][/\ (FormSubmit /\ NameOrSymbolEmpty)
             => /\ form'.error = RequiredMessage
                /\ form'.isCreating = FALSE /\ form'.stage = "idle"
                /\ form'.createdTokenAddress = Null /\ form'.success = NullMsg
                /\ provCalls' = {} /\ pend' = pend /\ prov' = prov
        /\ (FormSubmit /\ ~NameOrSymbolEmpty)
             => /\ form'.error # RequiredMessage
                /\ \/ form'.stage = "creating" /\ form'.isCreating
                   \/ form'.stage = "connecting" /\ provCalls' = {"connect"}
                   \/ form'.stage = "idle" /\ ~getPhantomProvider /\ ~form.walletConnected
        /\ FormCreated
             => /\ form'.createdTokenAddress = MockTokenAddress
                /\ provCalls' \subseteq {"request"}
        /\ NextForm => provCalls' \subseteq {"connect", "request"}]_vars
C18_Witness ==
  /\ last = Returned("form", "submit", Undefined)
  /\ form.error = RequiredMessage
  /\ form.tokenName = "MyToken" /\ form.tokenSymbol = ""
  /\ form.walletConnected /\ prov.isConnected
  /\ form.createdTokenAddress = Null /\ ~form.isCreating

\* C19: when the disconnectPhantomWallet() of runTests' Test 8 resolves,
\* isPhantomConnected() is false and Test 9 reads false; the
\* connectPhantomWallet() of Test 10 that follows calls provider.connect()
\* anew, and when the user approves it isPhantomConnected() is true again,
\* so that connect, disconnect, connect ends connected.
C19_ReconnectAfterDisconnect ==
  /\ [][TestDisconnectResolve
          => /\ ~isPhantomConnected'
             /\ ~test'.connectedAfterDisconnect
             /\ pend'["test"] = "connect" /\ provCalls' = {"connect"}]_vars
  /\ [][(\E k \in Keys : TestReconnectResolve(k))
          => /\ isPhantomConnected'
             /\ getConnectedPublicKey' = last'.ret]_vars
C19_Witness ==
  /\ test.pc = "done"
  /\ test.t5 = "ok" /\ test.t8 = "ok" /\ test.t10 = "ok"
  /\ test.connectedAfterAttempt /\ ~test.connectedAfterDisconnect
  /\ last.who = "test" /\ last.op = "connect" /\ last.outcome = "ok"
  /\ isPhantomConnected

\* C20: with MyApp mounted, one Ctrl+Shift+D keydown leaves the console in
\* the state one toggleDebugConsole() gives: shown when it was absent or
\* hidden, hidden when it was shown, however often initDebugTools has run.
CtrlShiftD == KeyDown(TRUE, TRUE, "D")
C20_OneKeyPressTogglesOnce ==
  [][(CtrlShiftD /\ dbg.shell)
       => dbg'.console = (IF dbg.console = "flex" THEN "none" ELSE "flex")]_vars

\* C21: after a disconnect event the application did not ask for, every
\* constructed PhantomWalletAdapter has connected = false and publicKey =
\* null, whether or not the provider was injected when it was constructed.
C21_AdapterMirrorsProviderDisconnect ==
  [][(ProviderDisconnect /\ adapter.constructed)
       => adapter'.connected = FALSE /\ adapter'.publicKey = Null]_vars

\* C22: a setupPhantomEventListeners call adds to the provider's listeners
\* one listener for each event it was given a callback for and nothing else;
\* the teardown it returned removes that call's listeners and nothing else;
\* teardown right after setup gives the listeners there were before setup.
C22_SetupTeardownRoundTrip ==
  /\ [][\A s \in Subs, cbs \in CallbackChoices :
          ApiSetup(s, cbs)
             => /\ listeners \subseteq listeners'
                /\ listeners' \ listeners =
                     (IF getPhantomProvider THEN {<<e, s>> : e \in cbs} ELSE {})
                /\ teardownListeners(s)' = listeners]_vars
  /\ [][\A s \in Subs :
          ApiTeardown(s) => listeners' = listeners \ {<<e, s>> : e \in Events}]_vars
C22_Witness ==
  \E s, r \in Subs :
    /\ sub[s].owner = "api" /\ sub[s].bound /\ sub[s].cbs = {"disconnect"}
    /\ sub[s].teardowns = 1
    /\ sub[r].owner = "api" /\ sub[r].state = "active" /\ sub[r].bound /\ sub[r].cbs = Events
    /\ listeners = {<<e, r>> : e \in Events}
    /\ last = Returned("api", "teardown", Undefined)

\* C23: two toggleDebugConsole() calls in a row leave the console shown
\* exactly when it was shown before them, and whatever show, hide and toggle
\* calls are made, at most one console element is ever appended to the
\* document: an element is appended only while window.debugConsole is unset.
C23_ToggleTwiceAndSingleElement ==
  /\ [](Shown(toggleDebugConsole(toggleDebugConsole(dbg.console))) = Shown(dbg.console))
  /\ [](dbg.appended <= 1 /\ (dbg.appended = 0 <=> dbg.console = "absent"))
  /\ [][(Test1Close /\ dbg.console = (IF dbg.t1shown THEN "none" ELSE "flex"))
          => Shown(dbg'.console) = dbg.t1shown]_vars
C23_Witness ==
  /\ dbg.t1 = "done" /\ ~dbg.t1shown
  /\ dbg.console = "none"
  /\ dbg.appended = 1
  /\ dbg.inits = 0

\* C24: PhantomWalletAdapter's accountChanged listener, on an event without
\* a key, clears publicKey, sets connected to false and calls the
\* onDisconnect callback (once, when one is set); on an event with key K it
\* stores K as publicKey and leaves connected as it was.
AdapterHearsAccountChanged == <<"accountChanged", AdapterListener>> \in listeners
C24_AccountChangedHandling ==
  /\ [][(AccountChangedNull /\ AdapterHearsAccountChanged)
          => /\ adapter'.publicKey = Null
             /\ adapter'.connected = FALSE
             /\ invoked'[OnDisconnectCb] = (IF adapter.onDisconnect THEN 1 ELSE 0)]_vars
  /\ [][\A k \in Keys :
          (AccountChanged(k) /\ AdapterHearsAccountChanged)
             => /\ adapter'.publicKey = PublicKey(k)
                /\ adapter'.connected = adapter.connected
                /\ invoked'[OnDisconnectCb] = 0]_vars
C24_Witness ==
  /\ ui.sub \in Subs
  /\ invoked[<<"accountChanged", ui.sub>>] = 1
  /\ invoked[OnDisconnectCb] = 1
  /\ adapter.constructed /\ adapter.onDisconnect
  /\ adapter.publicKey = Null /\ ~adapter.connected
  /\ ~prov.isConnected /\ everConnected

\* C25: when a PhantomWalletAdapter.disconnect() call succeeds, the callback
\* set with onDisconnect is invoked exactly once if the adapter was
\* connected (also when the provider emits its disconnect event meanwhile)
\* and not at all if the adapter was already disconnected.
C25_OnDisconnectOncePerDisconnect ==
  [][(AdapterDisconnectResolve /\ adapter.onDisconnect)
       => invoked'[OnDisconnectCb] = (IF adapter.connected THEN 1 ELSE 0)]_vars

\* C26: a connect button component has at most one provider call in flight:
\* a call of the component is pending only while isLoading is true, and no
\* handleConnect or handleDisconnect starts while one is pending, whatever
\* the user clicks and whatever events the provider emits meanwhile.
C26_OneCallInFlightPerComponent ==
  /\ [](pend["ui"] # "none" => ui.isLoading)
  /\ [][(HandleConnect \/ HandleDisconnect) => pend["ui"] = "none"]_vars
C26_Witness ==
  /\ ButtonsRendered /\ ~ui.walletConnected
  /\ pend["ui"] = "disconnect" /\ ui.isLoading
  /\ ~prov.isConnected

\* C27: in TestWalletIntegration, while a runAllTests run is in progress
\* isLoading is true at every point where the page can take a click, a
\* wallet call of the component is pending only while isLoading is true,
\* and a click on a button of the page starts a handler only when no run
\* is in progress and no wallet call of the component is pending.
C27_LoadingThroughoutRun ==
  /\ [](twi.mode = "all" => twi.isLoading)
  /\ [](pend["twi"] # "none" => twi.isLoading)
  /\ [][TwiClicks => (twi.mode = "none" /\ pend["twi"] = "none")]_vars

\* a run that has passed its connect step and awaits the disconnect of its
\* last step
C27_Witness ==
  /\ twi.mode = "all" /\ twi.pc = "disconnect" /\ twi.isLoading
  /\ twi.testResults["walletConnection"] = "PASS"
  /\ pend["twi"] = "disconnect"

\* C28: in TestWalletIntegration, a runAllTests run with Phantom installed
\* that was started while the wallet was not connected has, when it ends,
\* run connect, popup, add-token and disconnect in that order and recorded a
\* PASS or FAIL result for each of walletConnection, popupFunctionality,
\* addToken and walletDisconnection.
C28_RunAllRecordsFourResults ==
  (twi.finished = "all" /\ ~twi.c /\ twi.testResults["phantomInstallation"] = "PASS")
    => /\ twi.steps = <<"connect", "popup", "addToken", "disconnect">>
       /\ \A n \in TwiTests \ {"phantomInstallation"} :
            twi.testResults[n] \in {"PASS", "FAIL"}

\* C29: after any sequence of initDebugTools calls and of log, loglevel and
\* debug commands, LOG_LEVEL is one of error, warn, info, debug, trace;
\* log(level, message) writes an entry only if DEBUG_ENABLED is true and the
\* rank of level is not above the rank of LOG_LEVEL; and a level argument
\* that is not one of the five levels leaves LOG_LEVEL unchanged.
C29_LogLevelStaysValid ==
  /\ [](dbg.logLevel \in LogLevels)
  /\ [](dbg.log.wrote =>
          /\ dbg.log.enabled
          /\ dbg.log.level \in LogLevels /\ dbg.log.logLevel \in LogLevels
          /\ LOG_LEVELS(dbg.log.level).k <= LOG_LEVELS(dbg.log.logLevel).k)
  /\ [][\A l \in (LevelArgs \cup {"undefined"}) \ LogLevels :
          ((\E enabled \in {"true", "false", "undefined"} : InitDebugToolsCall(enabled, l))
             \/ ExecuteDebugCommand("loglevel", l))
            => dbg'.logLevel = dbg.logLevel]_vars

\* C30: TokenCreationForm.handleSubmit always ends with isCreating = false;
\* whenever success is set, createdTokenAddress holds the created address;
\* a failure of the add-token step that follows sets error and keeps success
\* and createdTokenAddress; and when the connect step inside handleSubmit
\* fails, success and createdTokenAddress are not set and isCreating has not
\* become true.
C30_SubmitOutcomes ==
  /\ [](form.stage = "idle" => ~form.isCreating)
  /\ [](form.stage = "connecting" => ~form.isCreating)
  /\ [](form.success # NullMsg => form.createdTokenAddress = MockTokenAddress)
  /\ [][((\E e \in ProviderErrors : FormAddTokenReject(e))
           \/ (FormCreated /\ AddTokenCheck # NoErr))
          => /\ form'.error # NullMsg
             /\ form'.success # NullMsg
             /\ form'.createdTokenAddress = MockTokenAddress
             /\ ~form'.isCreating /\ form'.stage = "idle"]_vars
  /\ [][((\E e \in ProviderErrors : FormConnectReject(e))
           \/ (FormSubmit /\ ~formInvalid(form) /\ ~form.walletConnected /\ ~getPhantomProvider))
          => /\ form'.error # NullMsg
             /\ form'.success = NullMsg
             /\ form'.createdTokenAddress = Null
             /\ ~form.isCreating /\ ~form'.isCreating /\ form'.stage = "idle"]_vars

\* handleSubmit has ended after the token was created and the add-token
\* step failed
C30_Witness ==
  /\ form.stage = "idle" /\ ~form.isCreating
  /\ form.success # NullMsg /\ form.createdTokenAddress = MockTokenAddress
  /\ form.error # NullMsg
  /\ last = Returned("form", "submit", Undefined)

====
